---- MODULE Spec2Model ----
(***************************************************************************)
(* A model of ras-sh/convex-stripe: the entity store and its upsert        *)
(* mutations (src/component/lib.ts), the webhook reconciliation engine     *)
(* (src/client/index.ts, class WebhookHandler) and the backfill sync       *)
(* routines (syncSubscriptions, syncProducts).                             *)
(*                                                                         *)
(* Conventions.  An absent (`undefined` / `null`) string is None, an       *)
(* absent number is 0 (the source maps 0 to absent itself: `x || undefined`)*)
(* and an absent row is NoRow.  A slug is the sequence of its "-"-free     *)
(* segments, so `a-b-c` is <<"a","b","c">> and the absent slug is << >>.   *)
(* A Convex mutation or query is one transaction, hence one atomic step;   *)
(* an action (webhook request, sync run) is a sequence of such steps that  *)
(* other actions may interleave with.                                      *)
(***************************************************************************)
EXTENDS Integers, Sequences, FiniteSets, TLC

VARIABLES
  db,        \* the entity store: one set of rows per table, and the id counters
  calls,     \* StoreSpec: number of mutations invoked directly so far
  last,      \* StoreSpec: the last mutation invoked directly (op, args, ret, repeated)
  wh,        \* the webhook request in flight, its response and what it did
  remote,    \* the provider's objects, in the order its list calls return them
  sy         \* the backfill sync run: loop position, cursor, page, what it did

vars == <<db, calls, last, wh, remote, sy>>

None == "none"
NoRow == [_id |-> 0]
NoSlug == << >>

(***************************************************************************)
(* The entity store                                                        *)
(***************************************************************************)
Tables == {"customers", "products", "prices", "subscriptions", "invoices",
           "paymentMethods"}

EmptyDb ==
  [customers |-> {}, products |-> {}, prices |-> {}, subscriptions |-> {},
   invoices |-> {}, paymentMethods |-> {}, ids |-> [t \in Tables |-> 0]]

\* `.first()` of an index range: rows of one key come in creation order.
First(rows) ==
  IF rows = {} THEN NoRow
  ELSE CHOOSE r \in rows : \A q \in rows : r._id <= q._id

\* `.withIndex("stripeId", q => q.eq("stripeId", stripeId))`
ByStripeId(d, t, stripeId) == {r \in d[t] : r.stripeId = stripeId}

\* ctx.db.insert(table, args): a fresh local id, every supplied field stored.
Insert(d, t, args) ==
  [db |-> [d EXCEPT ![t] = @ \cup {[_id |-> d.ids[t] + 1] @@ args},
                    !.ids[t] = @ + 1],
   ret |-> d.ids[t] + 1]

\* A faulty patch that also gives the row a fresh local id.
PatchFresh(d, t, row, fields) ==
  [d EXCEPT ![t] = (@ \ {row}) \cup {[_id |-> d.ids[t] + 1] @@ fields @@ row},
            !.ids[t] = @ + 1]

\* ctx.db.patch(id, fields): the named fields replaced, the others kept.
Patch(d, t, row, fields) ==
  [d EXCEPT ![t] = (@ \ {row}) \cup {fields @@ row}]

\* ctx.db.delete(id)
Delete(d, t, row) == [d EXCEPT ![t] = @ \ {row}]

\* A faulty upsert that skips the lookup and always inserts.
UpsertNoLookup(d, t, args, mutable) == Insert(d, t, args)

\* A faulty upsert that replaces an existing row by a freshly inserted one.
UpsertReplace(d, t, args, mutable) ==
  LET existing == First(ByStripeId(d, t, args.stripeId)) IN
  IF existing # NoRow
    THEN Insert(Delete(d, t, existing), t, args)
    ELSE Insert(d, t, args)

\* The common shape of every upsert mutation: look the row up by remote id,
\* patch the mutable fields if it exists, insert all the fields otherwise.
Upsert(d, t, args, mutable) ==
  LET existing == First(ByStripeId(d, t, args.stripeId)) IN
  IF existing # NoRow
    THEN [db |-> Patch(d, t, existing, [f \in mutable |-> args[f]]),
          ret |-> existing._id]
    ELSE Insert(d, t, args)

\* A faulty field list for the customer patch that also overwrites `userId`.
CustomerMutableWithUser == {"email", "name", "currency", "metadata", "userId"}

CustomerMutable == {"email", "name", "currency", "metadata"}
\* A faulty field list for the product patch that also overwrites `created`.
ProductMutableAll == {"name", "description", "active", "type", "slug",
                      "created", "updated", "metadata"}
ProductMutable == {"name", "description", "active", "type", "slug", "updated",
                   "metadata"}
PriceMutable == {"productId", "productStripeId", "active", "currency",
                 "unitAmount", "billingScheme", "type", "recurringInterval",
                 "recurringIntervalCount", "slug", "metadata"}
SubscriptionMutable == {"status", "priceId", "priceStripeId", "productSlug",
                        "currency", "currentPeriodStart", "currentPeriodEnd",
                        "cancelAtPeriodEnd", "canceledAt", "endedAt",
                        "trialStart", "trialEnd", "metadata"}
\* A faulty field list for the invoice patch that also overwrites amounts.
InvoiceMutableWithTotals == {"status", "amountPaid", "amountRemaining",
                             "invoicePdf", "hostedInvoiceUrl", "paidAt",
                             "metadata", "amountDue", "total"}

InvoiceMutable == {"status", "amountPaid", "amountRemaining", "invoicePdf",
                   "hostedInvoiceUrl", "paidAt", "metadata"}
PaymentMethodMutable == {"card", "isDefault", "metadata"}

UpsertCustomer(d, args) == Upsert(d, "customers", args, CustomerMutable)
UpsertProduct(d, args) == Upsert(d, "products", args, ProductMutable)
UpsertPrice(d, args) == Upsert(d, "prices", args, PriceMutable)
UpsertSubscription(d, args) == Upsert(d, "subscriptions", args, SubscriptionMutable)
UpsertInvoice(d, args) == Upsert(d, "invoices", args, InvoiceMutable)
UpsertPaymentMethod(d, args) == Upsert(d, "paymentMethods", args, PaymentMethodMutable)

\* A faulty delete that empties the table instead of removing one row.
DeleteByStripeIdAll(d, t, stripeId) ==
  [db |-> [d EXCEPT ![t] = {}], ret |-> 0]

\* The common shape of the delete mutations: remove the row if present.
DeleteByStripeId(d, t, stripeId) ==
  LET row == First(ByStripeId(d, t, stripeId)) IN
  [db |-> IF row # NoRow THEN Delete(d, t, row) ELSE d, ret |-> 0]

DeleteSubscription(d, stripeId) == DeleteByStripeId(d, "subscriptions", stripeId)
DeletePaymentMethod(d, stripeId) == DeleteByStripeId(d, "paymentMethods", stripeId)
DeleteCustomer(d, stripeId) == DeleteByStripeId(d, "customers", stripeId)

\* A faulty deactivate that removes the row instead of clearing its flag.
DeactivateByDelete(d, t, stripeId) ==
  LET existing == First(ByStripeId(d, t, stripeId)) IN
  [db |-> IF existing # NoRow THEN Delete(d, t, existing) ELSE d, ret |-> 0]

\* The common shape of the deactivate mutations: active := false if present.
Deactivate(d, t, stripeId) ==
  LET existing == First(ByStripeId(d, t, stripeId)) IN
  [db |-> IF existing # NoRow
            THEN Patch(d, t, existing, [active |-> FALSE])
            ELSE d,
   ret |-> 0]

DeactivateProduct(d, stripeId) == Deactivate(d, "products", stripeId)
DeactivatePrice(d, stripeId) == Deactivate(d, "prices", stripeId)

\* Lookup queries used by the reconciliation and sync layers.
GetCustomerByStripeId(d, stripeId) == First(ByStripeId(d, "customers", stripeId))
GetProductByStripeId(d, stripeId) == First(ByStripeId(d, "products", stripeId))
GetPriceByStripeId(d, stripeId) == First(ByStripeId(d, "prices", stripeId))
GetSubscriptionByStripeId(d, stripeId) ==
  First(ByStripeId(d, "subscriptions", stripeId))
\* A faulty lookup that searches the remote-id column for the user id.
GetCustomerByUserIdWrongKey(d, userId) ==
  First({r \in d.customers : r.stripeId = userId})

\* A faulty lookup that never finds the user's customer.
GetCustomerByUserIdNever(d, userId) == NoRow

GetCustomerByUserId(d, userId) == First({r \in d.customers : r.userId = userId})

\* A faulty query that ignores the status.
GetCurrentSubscriptionAnyStatus(d, userId) ==
  First({r \in d.subscriptions : r.userId = userId})

\* withIndex("userId_status", q => q.eq("userId", userId).eq("status",
\* "active")).collect()[0] || null: the oldest active row of the user.
GetCurrentSubscription(d, userId) ==
  First({r \in d.subscriptions : r.userId = userId /\ r.status = "active"})

(***************************************************************************)
(* Bounded argument domains.  A "version" v selects one consistent set of  *)
(* field values, so that two versions of an entity differ in every field a *)
(* caller can change.                                                      *)
(***************************************************************************)
Users == {"u1", "u2"}
CusIds == {"cus_1", "cus_2"}
ProdIds == {"prod_1", "prod_2"}
PriceIds == {"price_1", "price_2"}
SubIds == {"sub_1", "sub_2"}
InvoiceIds == {"in_1", "in_2"}
PaymentMethodIds == {"pm_1"}
Versions == {1, 2}

\* The local customer id a direct caller passes for a user (any id is legal).
LocalIdOf(userId) == IF userId = "u1" THEN 1 ELSE 2
CusOf(userId) == IF userId = "u1" THEN "cus_1" ELSE "cus_2"

CustomerArgs(stripeId, userId, v) ==
  [stripeId |-> stripeId, userId |-> userId,
   email |-> IF v = 1 THEN "a@x" ELSE "b@x",
   name |-> IF v = 1 THEN None ELSE "Ann",
   currency |-> IF v = 1 THEN None ELSE "usd",
   created |-> 10 * v,
   metadata |-> IF v = 1 THEN None ELSE userId]

ProductArgs(stripeId, v) ==
  [stripeId |-> stripeId,
   name |-> IF v = 1 THEN "Pro" ELSE "Pro v2",
   description |-> IF v = 1 THEN None ELSE "text",
   active |-> (v = 1),
   type |-> IF v = 1 THEN "service" ELSE None,
   slug |-> IF v = 1 THEN <<"pro">> ELSE NoSlug,
   created |-> 10 * v, updated |-> 11 * v,
   metadata |-> IF v = 1 THEN None ELSE "m2"]

PriceArgs(stripeId, v) ==
  [stripeId |-> stripeId, productId |-> v,
   productStripeId |-> IF v = 1 THEN "prod_1" ELSE "prod_2",
   active |-> (v = 1),
   currency |-> IF v = 1 THEN "usd" ELSE "eur",
   unitAmount |-> IF v = 1 THEN 1999 ELSE 0,
   billingScheme |-> IF v = 1 THEN "per_unit" ELSE None,
   type |-> IF v = 1 THEN "recurring" ELSE "one_time",
   recurringInterval |-> IF v = 1 THEN "month" ELSE None,
   recurringIntervalCount |-> IF v = 1 THEN 1 ELSE 0,
   slug |-> IF v = 1 THEN <<"pro", "usd", "month">> ELSE NoSlug,
   created |-> 10 * v,
   metadata |-> IF v = 1 THEN None ELSE "m2"]

SubscriptionArgs(stripeId, userId, v) ==
  [stripeId |-> stripeId, customerId |-> LocalIdOf(userId),
   customerStripeId |-> CusOf(userId), userId |-> userId,
   status |-> IF v = 1 THEN "active" ELSE "canceled",
   priceId |-> IF v = 1 THEN 1 ELSE 0,
   priceStripeId |-> IF v = 1 THEN "price_1" ELSE None,
   productSlug |-> IF v = 1 THEN <<"pro">> ELSE NoSlug,
   currency |-> IF v = 1 THEN "usd" ELSE "eur",
   currentPeriodStart |-> 100 * v, currentPeriodEnd |-> 100 * v + 30,
   cancelAtPeriodEnd |-> (v = 2),
   canceledAt |-> IF v = 1 THEN 0 ELSE 150,
   endedAt |-> IF v = 1 THEN 0 ELSE 160,
   trialStart |-> IF v = 1 THEN 90 ELSE 0,
   trialEnd |-> IF v = 1 THEN 95 ELSE 0,
   created |-> 10 * v,
   metadata |-> IF v = 1 THEN None ELSE "m2"]

InvoiceArgs(stripeId, userId, v) ==
  [stripeId |-> stripeId, customerId |-> LocalIdOf(userId),
   customerStripeId |-> CusOf(userId), userId |-> userId,
   subscriptionId |-> IF v = 1 THEN 0 ELSE 1,
   subscriptionStripeId |-> IF v = 1 THEN None ELSE "sub_1",
   status |-> IF v = 1 THEN "open" ELSE "paid",
   currency |-> IF v = 1 THEN "usd" ELSE "eur",
   amountDue |-> 1999 * v, amountPaid |-> IF v = 1 THEN 0 ELSE 3998,
   amountRemaining |-> IF v = 1 THEN 1999 ELSE 0,
   subtotal |-> 1999 * v, total |-> 1999 * v, tax |-> 0,
   invoicePdf |-> IF v = 1 THEN None ELSE "pdf",
   hostedInvoiceUrl |-> IF v = 1 THEN None ELSE "url",
   billingReason |-> IF v = 1 THEN "subscription_create" ELSE None,
   periodStart |-> 100 * v, periodEnd |-> 100 * v + 30,
   dueDate |-> IF v = 1 THEN 140 ELSE 0,
   paidAt |-> IF v = 1 THEN 0 ELSE 210,
   created |-> 10 * v,
   metadata |-> IF v = 1 THEN None ELSE "m2"]

PaymentMethodArgs(stripeId, userId, v) ==
  [stripeId |-> stripeId, customerId |-> LocalIdOf(userId),
   customerStripeId |-> CusOf(userId), userId |-> userId,
   type |-> IF v = 1 THEN "card" ELSE "sepa_debit",
   card |-> IF v = 1 THEN "visa-4242" ELSE None,
   isDefault |-> (v = 1),
   created |-> 10 * v,
   metadata |-> IF v = 1 THEN None ELSE "m2"]

UpsertCustomerArgs ==
  {CustomerArgs(c, u, v) : c \in CusIds, u \in Users, v \in Versions}
UpsertProductArgs == {ProductArgs(p, v) : p \in ProdIds, v \in Versions}
UpsertPriceArgs == {PriceArgs(p, v) : p \in PriceIds, v \in Versions}
UpsertSubscriptionArgs ==
  {SubscriptionArgs(s, u, v) : s \in SubIds, u \in Users, v \in Versions}
UpsertInvoiceArgs ==
  {InvoiceArgs(i, u, v) : i \in InvoiceIds, u \in Users, v \in Versions}
UpsertPaymentMethodArgs ==
  {PaymentMethodArgs(p, u, v) : p \in PaymentMethodIds, u \in Users, v \in Versions}

(***************************************************************************)
(* StoreSpec: the mutations invoked directly, in any order and with any    *)
(* arguments.  Each mutation is one transaction, so every interleaving of  *)
(* concurrent callers (webhook deliveries, sync runs, createCustomer) is a *)
(* sequence of these steps.                                                *)
(***************************************************************************)
MaxCalls == 2

NoCall == [op |-> None, args |-> NoRow, ret |-> 0, existed |-> FALSE,
           repeated |-> FALSE, prevRet |-> 0, noDiff |-> FALSE]

\* One direct invocation of mutation `op` on table t with result r.
Invoke(op, t, args, r) ==
  /\ calls < MaxCalls
  /\ calls' = calls + 1
  /\ db' = r.db
  /\ last' = [op |-> op, args |-> args, ret |-> r.ret,
              existed |-> ByStripeId(db, t, args.stripeId) # {},
              repeated |-> (last.op = op /\ last.args = args),
              prevRet |-> last.ret, noDiff |-> (r.db = db)]
  /\ UNCHANGED <<wh, remote, sy>>

CallUpsertCustomer ==
  \E a \in UpsertCustomerArgs :
    Invoke("upsertCustomer", "customers", a, UpsertCustomer(db, a))
CallUpsertProduct ==
  \E a \in UpsertProductArgs :
    Invoke("upsertProduct", "products", a, UpsertProduct(db, a))
CallUpsertPrice ==
  \E a \in UpsertPriceArgs :
    Invoke("upsertPrice", "prices", a, UpsertPrice(db, a))
CallUpsertSubscription ==
  \E a \in UpsertSubscriptionArgs :
    Invoke("upsertSubscription", "subscriptions", a, UpsertSubscription(db, a))
CallUpsertInvoice ==
  \E a \in UpsertInvoiceArgs :
    Invoke("upsertInvoice", "invoices", a, UpsertInvoice(db, a))
CallUpsertPaymentMethod ==
  \E a \in UpsertPaymentMethodArgs :
    Invoke("upsertPaymentMethod", "paymentMethods", a, UpsertPaymentMethod(db, a))
CallDeleteSubscription ==
  \E s \in SubIds :
    Invoke("deleteSubscription", "subscriptions", [stripeId |-> s],
           DeleteSubscription(db, s))
CallDeletePaymentMethod ==
  \E s \in PaymentMethodIds :
    Invoke("deletePaymentMethod", "paymentMethods", [stripeId |-> s],
           DeletePaymentMethod(db, s))
CallDeleteCustomer ==
  \E s \in CusIds :
    Invoke("deleteCustomer", "customers", [stripeId |-> s], DeleteCustomer(db, s))
CallDeactivateProduct ==
  \E s \in ProdIds :
    Invoke("deactivateProduct", "products", [stripeId |-> s],
           DeactivateProduct(db, s))
CallDeactivatePrice ==
  \E s \in PriceIds :
    Invoke("deactivatePrice", "prices", [stripeId |-> s], DeactivatePrice(db, s))

\* The rows of S in creation order (ascending _id), and newest first.
RECURSIVE Ascending(_)
Ascending(S) ==
  IF S = {} THEN << >>
  ELSE LET oldest == CHOOSE r \in S : \A x \in S : r._id <= x._id
       IN <<oldest>> \o Ascending(S \ {oldest})

RECURSIVE Descending(_)
Descending(S) ==
  IF S = {} THEN << >>
  ELSE LET newest == CHOOSE r \in S : \A x \in S : x._id <= r._id
       IN <<newest>> \o Descending(S \ {newest})

\* query.take(n): the first n results.
Take(seq, n) == SubSeq(seq, 1, IF n < Len(seq) THEN n ELSE Len(seq))

\* A faulty listing that ignores the user id.
ListUserSubscriptionsAll(d, userId) == Ascending(d.subscriptions)

\* query("subscriptions").withIndex("userId", q => q.eq("userId", u)).collect()
ListUserSubscriptions(d, userId) ==
  Ascending({r \in d.subscriptions : r.userId = userId})

\* The limit argument when the caller supplies none (v.optional(v.number())).
NoLimit == -1

\* query("invoices").withIndex("userId", ...).order("desc"), then
\* take(limit) if (args.limit), collect() otherwise: 0 is falsy.
ListUserInvoices(d, userId, limit) ==
  LET all == Descending({r \in d.invoices : r.userId = userId}) IN
  IF limit # NoLimit /\ limit # 0 THEN Take(all, limit) ELSE all

\* query("paymentMethods").withIndex("userId", ...).collect()
ListUserPaymentMethods(d, userId) ==
  Ascending({r \in d.paymentMethods : r.userId = userId})

\* The limits a caller passes to listUserInvoices.
Limits == {NoLimit, 0, 1, 2}

\* One invocation of a query that answers `rows`: the store is only read.
Query(op, args, rows) ==
  /\ calls < MaxCalls
  /\ calls' = calls + 1
  /\ last' = [op |-> op, args |-> args, ret |-> rows,
              existed |-> (rows # << >>), repeated |-> FALSE,
              prevRet |-> 0, noDiff |-> TRUE]
  /\ UNCHANGED <<db, wh, remote, sy>>

CallListUserSubscriptions ==
  \E u \in Users :
    Query("listUserSubscriptions", [userId |-> u], ListUserSubscriptions(db, u))
CallListUserInvoices ==
  \E u \in Users, n \in Limits :
    Query("listUserInvoices", [userId |-> u, limit |-> n],
          ListUserInvoices(db, u, n))
CallListUserPaymentMethods ==
  \E u \in Users :
    Query("listUserPaymentMethods", [userId |-> u],
          ListUserPaymentMethods(db, u))

\* One invocation of the getCurrentSubscription query (through the client's
\* wrapper, which hands the row on): the store is only read.
CallGetCurrentSubscription ==
  \E u \in Users :
    LET row == GetCurrentSubscription(db, u) IN
    /\ calls < MaxCalls
    /\ calls' = calls + 1
    /\ last' = [op |-> "getCurrentSubscription", args |-> [userId |-> u],
                ret |-> row._id, existed |-> (row # NoRow), repeated |-> FALSE,
                prevRet |-> last.ret, noDiff |-> TRUE]
    /\ UNCHANGED <<db, wh, remote, sy>>

StoreInit ==
  /\ db = EmptyDb
  /\ calls = 0
  /\ last = NoCall
  /\ wh = NoRow
  /\ remote = << >>
  /\ sy = NoRow

StoreNext ==
  \/ CallUpsertCustomer
  \/ CallUpsertProduct
  \/ CallUpsertPrice
  \/ CallUpsertSubscription
  \/ CallUpsertInvoice
  \/ CallUpsertPaymentMethod
  \/ CallDeleteSubscription
  \/ CallDeletePaymentMethod
  \/ CallDeleteCustomer
  \/ CallDeactivateProduct
  \/ CallDeactivatePrice
  \/ CallGetCurrentSubscription
  \/ CallListUserSubscriptions
  \/ CallListUserInvoices
  \/ CallListUserPaymentMethods

StoreSpec == StoreInit /\ [][StoreNext]_vars

UpsertOps == {"upsertCustomer", "upsertProduct", "upsertPrice",
              "upsertSubscription", "upsertInvoice", "upsertPaymentMethod"}

\* C1: under every interleaving of upsert (and delete, deactivate) mutations,
\* each a transaction, every entity table holds at most one row per remote id.
C1_UniqueRemoteId ==
  \A t \in Tables : \A r, q \in db[t] : r.stripeId = q.stripeId => r = q

\* C1 witness: an upsert was invoked for a remote id that already had a row,
\* and the table still holds exactly one row for it.
C1_Witness ==
  /\ last.op \in UpsertOps
  /\ last.existed
  /\ \E t \in Tables :
       \E r \in db[t] : r._id = last.ret /\ r.stripeId = last.args.stripeId
                        /\ Cardinality(ByStripeId(db, t, r.stripeId)) = 1

\* Upserting `a` twice into store d: one row, no diff, the same local id.
TwiceIsOnce(d, t, a, r1, r2) ==
  /\ r2.db = r1.db
  /\ r2.ret = r1.ret
  /\ Cardinality(ByStripeId(r2.db, t, a.stripeId)) = 1

\* C2: for every entity type and every reachable store, calling the upsert
\* twice with the same remote id and field values leaves exactly one row for
\* the remote id, stores after the second call what the first call stored,
\* and returns the same local id from both calls.
C2_UpsertIdempotent ==
  /\ \A a \in UpsertCustomerArgs :
       TwiceIsOnce(db, "customers", a, UpsertCustomer(db, a),
                   UpsertCustomer(UpsertCustomer(db, a).db, a))
  /\ \A a \in UpsertProductArgs :
       TwiceIsOnce(db, "products", a, UpsertProduct(db, a),
                   UpsertProduct(UpsertProduct(db, a).db, a))
  /\ \A a \in UpsertPriceArgs :
       TwiceIsOnce(db, "prices", a, UpsertPrice(db, a),
                   UpsertPrice(UpsertPrice(db, a).db, a))
  /\ \A a \in UpsertSubscriptionArgs :
       TwiceIsOnce(db, "subscriptions", a, UpsertSubscription(db, a),
                   UpsertSubscription(UpsertSubscription(db, a).db, a))
  /\ \A a \in UpsertInvoiceArgs :
       TwiceIsOnce(db, "invoices", a, UpsertInvoice(db, a),
                   UpsertInvoice(UpsertInvoice(db, a).db, a))
  /\ \A a \in UpsertPaymentMethodArgs :
       TwiceIsOnce(db, "paymentMethods", a, UpsertPaymentMethod(db, a),
                   UpsertPaymentMethod(UpsertPaymentMethod(db, a).db, a))
  /\ (last.op \in UpsertOps /\ last.repeated) =>
       (last.noDiff /\ last.ret = last.prevRet)

\* C2 witness: an upsert has been invoked twice in a row with identical
\* arguments, the second call changed nothing and returned the first call's id.
C2_Witness ==
  /\ last.op \in UpsertOps
  /\ last.repeated
  /\ last.noDiff
  /\ last.ret = last.prevRet
  /\ last.ret > 0

(***************************************************************************)
(* The provider's objects, with the fields the handlers and the sync       *)
(* routines read.  As for upsert arguments, a version v selects one        *)
(* consistent set of field values; null is None (strings) or 0 (numbers).  *)
(***************************************************************************)
StripeCustomer(id, metaUser, v) ==
  [id |-> id,
   email |-> IF v = 1 THEN "a@x" ELSE None,
   name |-> IF v = 1 THEN None ELSE "Ann",
   currency |-> IF v = 1 THEN None ELSE "usd",
   created |-> 10 * v,
   metadata |-> metaUser]      \* metadata.userId, None when the key is absent

StripeProduct(id, v) ==
  [id |-> id,
   name |-> IF v = 1 THEN "Pro" ELSE "Pro v2",
   description |-> IF v = 1 THEN None ELSE "text",
   active |-> TRUE,
   type |-> IF v = 1 THEN "service" ELSE None,
   created |-> 10, updated |-> 11 * v,
   metadata |-> IF v = 1 THEN None ELSE "m2"]

StripePrice(id, product, v) ==
  [id |-> id, product |-> product,
   active |-> TRUE,
   currency |-> IF v = 1 THEN "usd" ELSE "eur",
   unit_amount |-> IF v = 1 THEN 1999 ELSE 0,
   billing_scheme |-> IF v = 1 THEN "per_unit" ELSE None,
   type |-> IF v = 1 THEN "recurring" ELSE "one_time",
   interval |-> IF v = 1 THEN "month" ELSE None,       \* recurring?.interval
   interval_count |-> IF v = 1 THEN 1 ELSE 0,          \* recurring?.interval_count
   created |-> 10,
   metadata |-> IF v = 1 THEN None ELSE "m2"]

\* `price` is items.data[0]?.price.id (None for a subscription without items),
\* `priceCurrency` is items.data[0]?.price.currency and the two period fields
\* are those of items.data[0].
StripeSubscription(id, customer, price, v) ==
  [id |-> id, customer |-> customer, price |-> price,
   priceCurrency |-> IF price = None THEN None ELSE "gbp",
   currency |-> IF v = 1 THEN "usd" ELSE "eur",
   status |-> IF v = 1 THEN "active" ELSE "canceled",
   current_period_start |-> IF price = None THEN 0 ELSE 100 * v,
   current_period_end |-> IF price = None THEN 0 ELSE 100 * v + 30,
   cancel_at_period_end |-> (v = 2),
   canceled_at |-> IF v = 1 THEN 0 ELSE 150,
   ended_at |-> IF v = 1 THEN 0 ELSE 160,
   trial_start |-> IF v = 1 THEN 90 ELSE 0,
   trial_end |-> IF v = 1 THEN 95 ELSE 0,
   created |-> 10,
   metadata |-> IF v = 1 THEN None ELSE "m2"]

\* `subscription` is parent?.subscription_details?.subscription: invoices of
\* cus_1 are raised by sub_1, the others carry no subscription reference.
StripeInvoice(id, customer, v) ==
  [id |-> id, customer |-> customer,
   subscription |-> IF customer = "cus_1" THEN "sub_1" ELSE None,
   status |-> IF v = 1 THEN None ELSE "paid",
   currency |-> "usd",
   amount_due |-> 1999, amount_paid |-> IF v = 1 THEN 0 ELSE 1999,
   amount_remaining |-> IF v = 1 THEN 1999 ELSE 0,
   subtotal |-> 1999, total |-> 1999,
   invoice_pdf |-> IF v = 1 THEN None ELSE "pdf",
   hosted_invoice_url |-> IF v = 1 THEN None ELSE "url",
   billing_reason |-> IF v = 1 THEN "subscription_create" ELSE None,
   period_start |-> 100, period_end |-> 130,
   due_date |-> IF v = 1 THEN 140 ELSE 0,
   paid_at |-> IF v = 1 THEN 0 ELSE 210,       \* status_transitions?.paid_at
   created |-> 10,
   metadata |-> IF v = 1 THEN None ELSE "m2"]

StripePaymentIntent(id, customer, v) ==
  [id |-> id, customer |-> customer,
   status |-> IF v = 1 THEN "succeeded" ELSE "canceled",
   currency |-> "usd", amount |-> 500, created |-> 20,
   metadata |-> IF v = 1 THEN None ELSE "m2"]

\* The static product map handed to the client: slug -> remote product id.
ProductsConfig == [pro |-> "prod_1"]

\* Object.keys(products).find(key => products[key]?.productId === product.id)
SlugOfProduct(productStripeId) ==
  IF \E k \in DOMAIN ProductsConfig : ProductsConfig[k] = productStripeId
    THEN <<CHOOSE k \in DOMAIN ProductsConfig : ProductsConfig[k] = productStripeId>>
    ELSE NoSlug

\* A faulty slug derivation that leaves the interval out.
PriceSlugNoInterval(slug, price) ==
  IF slug = NoSlug THEN NoSlug ELSE slug \o <<price.currency>>

\* `${slug}-${price.currency}-${price.recurring?.interval || "once"}`, or
\* undefined when the product has no slug.
PriceSlug(slug, price) ==
  IF slug = NoSlug THEN NoSlug
  ELSE slug \o <<price.currency,
                 IF price.interval = None THEN "once" ELSE price.interval>>

\* x || fallback, for a string x
OrElse(x, fallback) == IF x = None \/ x = "" THEN fallback ELSE x

(***************************************************************************)
(* Reconciliation: the webhook handlers of class WebhookHandler.  Each     *)
(* returns the store it leaves and how many queries and mutations it ran.  *)
(***************************************************************************)
Outcome(d, reads, writes) == [db |-> d, reads |-> reads, writes |-> writes]

\* A faulty checkout handler that runs a mutation.
HandleCheckoutCompleteWrites(d, event) ==
  Outcome(DeleteCustomer(d, "cus_1").db, 0, 1)

HandleCheckoutComplete(d, event) == Outcome(d, 0, 0)

\* A faulty subscription handler that gives up when the price has no row.
HandleSubscriptionUpdateStrict(d, event) ==
  LET subscription == event.object
      customerStripeId == subscription.customer
      customer == GetCustomerByStripeId(d, customerStripeId)
      stripePriceId == subscription.price
      price == IF stripePriceId # None
                 THEN GetPriceByStripeId(d, stripePriceId) ELSE NoRow
      priceId == IF price # NoRow THEN price._id ELSE 0
      productSlug == IF price # NoRow THEN price.slug ELSE NoSlug
      currency == IF price # NoRow THEN price.currency
                  ELSE OrElse(subscription.priceCurrency, "usd")
  IN IF customer = NoRow THEN Outcome(d, 1, 0)
     ELSE IF price = NoRow THEN Outcome(d, 2, 0)
     ELSE Outcome(
       UpsertSubscription(d,
         [stripeId |-> subscription.id,
          customerId |-> customer._id,
          customerStripeId |-> customerStripeId,
          userId |-> customer.userId,
          status |-> subscription.status,
          priceId |-> priceId,
          priceStripeId |-> stripePriceId,
          productSlug |-> productSlug,
          currency |-> currency,
          currentPeriodStart |-> 0,
          currentPeriodEnd |-> 0,
          cancelAtPeriodEnd |-> subscription.cancel_at_period_end,
          canceledAt |-> subscription.canceled_at,
          endedAt |-> subscription.ended_at,
          trialStart |-> subscription.trial_start,
          trialEnd |-> subscription.trial_end,
          created |-> subscription.created,
          metadata |-> subscription.metadata]).db,
       IF stripePriceId # None THEN 2 ELSE 1, 1)

HandleSubscriptionUpdate(d, event) ==
  LET subscription == event.object
      customerStripeId == subscription.customer
      customer == GetCustomerByStripeId(d, customerStripeId)
      stripePriceId == subscription.price
      price == IF stripePriceId # None
                 THEN GetPriceByStripeId(d, stripePriceId) ELSE NoRow
      priceId == IF price # NoRow THEN price._id ELSE 0
      productSlug == IF price # NoRow THEN price.slug ELSE NoSlug
      currency == IF price # NoRow THEN price.currency
                  ELSE OrElse(subscription.priceCurrency, "usd")
  IN IF customer = NoRow THEN Outcome(d, 1, 0)
     ELSE Outcome(
       UpsertSubscription(d,
         [stripeId |-> subscription.id,
          customerId |-> customer._id,
          customerStripeId |-> customerStripeId,
          userId |-> customer.userId,
          status |-> subscription.status,
          priceId |-> priceId,
          priceStripeId |-> stripePriceId,
          productSlug |-> productSlug,
          currency |-> currency,
          currentPeriodStart |-> 0,
          currentPeriodEnd |-> 0,
          cancelAtPeriodEnd |-> subscription.cancel_at_period_end,
          canceledAt |-> subscription.canceled_at,
          endedAt |-> subscription.ended_at,
          trialStart |-> subscription.trial_start,
          trialEnd |-> subscription.trial_end,
          created |-> subscription.created,
          metadata |-> subscription.metadata]).db,
       IF stripePriceId # None THEN 2 ELSE 1, 1)

HandleSubscriptionDelete(d, event) ==
  Outcome(DeleteSubscription(d, event.object.id).db, 0, 1)

HandleInvoiceEvent(d, event) ==
  LET invoice == event.object
      customerStripeId == OrElse(invoice.customer, "")
      customer == GetCustomerByStripeId(d, customerStripeId)
  IN IF customer = NoRow THEN Outcome(d, 1, 0)
     ELSE Outcome(
       UpsertInvoice(d,
         [stripeId |-> invoice.id,
          customerId |-> customer._id,
          customerStripeId |-> customerStripeId,
          userId |-> customer.userId,
          subscriptionId |-> 0,
          subscriptionStripeId |-> None,
          status |-> OrElse(invoice.status, "draft"),
          currency |-> invoice.currency,
          amountDue |-> invoice.amount_due,
          amountPaid |-> invoice.amount_paid,
          amountRemaining |-> invoice.amount_remaining,
          subtotal |-> invoice.subtotal,
          total |-> invoice.total,
          tax |-> 0,
          invoicePdf |-> invoice.invoice_pdf,
          hostedInvoiceUrl |-> invoice.hosted_invoice_url,
          billingReason |-> invoice.billing_reason,
          periodStart |-> invoice.period_start,
          periodEnd |-> invoice.period_end,
          dueDate |-> invoice.due_date,
          paidAt |-> invoice.paid_at,
          created |-> invoice.created,
          metadata |-> invoice.metadata]).db,
       1, 1)

HandleProductUpdate(d, event) ==
  LET product == event.object IN
  Outcome(
    UpsertProduct(d,
      [stripeId |-> product.id,
       name |-> product.name,
       description |-> product.description,
       active |-> product.active,
       type |-> product.type,
       slug |-> SlugOfProduct(product.id),
       created |-> product.created,
       updated |-> product.updated,
       metadata |-> product.metadata]).db,
    0, 1)

HandleProductDeleted(d, event) ==
  Outcome(DeactivateProduct(d, event.object.id).db, 0, 1)

\* A faulty price handler that skips the product lookup's null check.
HandlePriceUpdateOrphan(d, event) ==
  LET price == event.object
      product == GetProductByStripeId(d, price.product)
  IN Outcome(
       UpsertPrice(d,
         [stripeId |-> price.id,
          productId |-> product._id,
          productStripeId |-> price.product,
          active |-> price.active,
          currency |-> price.currency,
          unitAmount |-> price.unit_amount,
          billingScheme |-> price.billing_scheme,
          type |-> price.type,
          recurringInterval |-> price.interval,
          recurringIntervalCount |-> price.interval_count,
          slug |-> NoSlug,
          created |-> price.created,
          metadata |-> price.metadata]).db,
       1, 1)

HandlePriceUpdate(d, event) ==
  LET price == event.object
      productStripeId == price.product
      product == GetProductByStripeId(d, productStripeId)
  IN IF product = NoRow THEN Outcome(d, 1, 0)
     ELSE Outcome(
       UpsertPrice(d,
         [stripeId |-> price.id,
          productId |-> product._id,
          productStripeId |-> productStripeId,
          active |-> price.active,
          currency |-> price.currency,
          unitAmount |-> price.unit_amount,
          billingScheme |-> price.billing_scheme,
          type |-> price.type,
          recurringInterval |-> price.interval,
          recurringIntervalCount |-> price.interval_count,
          slug |-> PriceSlug(product.slug, price),
          created |-> price.created,
          metadata |-> price.metadata]).db,
       1, 1)

HandlePriceDeleted(d, event) ==
  Outcome(DeactivatePrice(d, event.object.id).db, 0, 1)

\* A faulty customer.updated handler that never consults the stored row.
HandleCustomerUpdatedMetadataOnly(d, event) ==
  LET c == event.object
  IN IF c.metadata = None THEN Outcome(d, 0, 0)
     ELSE Outcome(
       UpsertCustomer(d,
         [stripeId |-> c.id,
          userId |-> c.metadata,
          email |-> OrElse(c.email, ""),
          name |-> c.name,
          currency |-> c.currency,
          created |-> c.created,
          metadata |-> c.metadata]).db,
       0, 1)

HandleCustomerUpdated(d, event) ==
  LET c == event.object
      existing == GetCustomerByStripeId(d, c.id)
      userId == IF c.metadata # None THEN c.metadata
                ELSE IF existing # NoRow THEN existing.userId ELSE None
      reads == IF c.metadata # None THEN 0 ELSE 1
  IN IF userId = None THEN Outcome(d, reads, 0)
     ELSE Outcome(
       UpsertCustomer(d,
         [stripeId |-> c.id,
          userId |-> userId,
          email |-> OrElse(c.email, ""),
          name |-> c.name,
          currency |-> c.currency,
          created |-> c.created,
          metadata |-> c.metadata]).db,
       reads, 1)

HandleCustomerDeleted(d, event) ==
  Outcome(DeleteCustomer(d, event.object.id).db, 0, 1)

\* A faulty payment-intent handler that records every intent as paid.
HandlePaymentIntentEventPaid(d, event) ==
  LET pi == event.object
      customerStripeId == OrElse(pi.customer, "")
      customer == GetCustomerByStripeId(d, customerStripeId)
  IN IF customerStripeId = "" THEN Outcome(d, 0, 0)
     ELSE IF customer = NoRow THEN Outcome(d, 1, 0)
     ELSE Outcome(
       UpsertInvoice(d,
         [stripeId |-> pi.id,
          customerId |-> customer._id,
          customerStripeId |-> customerStripeId,
          userId |-> customer.userId,
          subscriptionId |-> 0,
          subscriptionStripeId |-> None,
          status |-> pi.status,
          currency |-> pi.currency,
          amountDue |-> pi.amount,
          amountPaid |-> pi.amount,
          amountRemaining |-> 0,
          subtotal |-> pi.amount,
          total |-> pi.amount,
          tax |-> 0,
          invoicePdf |-> None,
          hostedInvoiceUrl |-> None,
          billingReason |-> None,
          periodStart |-> pi.created,
          periodEnd |-> pi.created,
          dueDate |-> 0,
          paidAt |-> IF pi.status = "succeeded" THEN pi.created ELSE 0,
          created |-> pi.created,
          metadata |-> pi.metadata]).db,
       1, 1)

HandlePaymentIntentEvent(d, event) ==
  LET pi == event.object
      customerStripeId == OrElse(pi.customer, "")
      customer == GetCustomerByStripeId(d, customerStripeId)
  IN IF customerStripeId = "" THEN Outcome(d, 0, 0)
     ELSE IF customer = NoRow THEN Outcome(d, 1, 0)
     ELSE Outcome(
       UpsertInvoice(d,
         [stripeId |-> pi.id,
          customerId |-> customer._id,
          customerStripeId |-> customerStripeId,
          userId |-> customer.userId,
          subscriptionId |-> 0,
          subscriptionStripeId |-> None,
          status |-> pi.status,
          currency |-> pi.currency,
          amountDue |-> pi.amount,
          amountPaid |-> IF pi.status = "succeeded" THEN pi.amount ELSE 0,
          amountRemaining |-> 0,
          subtotal |-> pi.amount,
          total |-> pi.amount,
          tax |-> 0,
          invoicePdf |-> None,
          hostedInvoiceUrl |-> None,
          billingReason |-> None,
          periodStart |-> pi.created,
          periodEnd |-> pi.created,
          dueDate |-> 0,
          paidAt |-> IF pi.status = "succeeded" THEN pi.created ELSE 0,
          created |-> pi.created,
          metadata |-> pi.metadata]).db,
       1, 1)

SubscriptionUpdateTypes ==
  {"customer.subscription.created", "customer.subscription.updated"}
InvoiceTypes == {"invoice.paid", "invoice.payment_failed", "invoice.finalized",
                 "invoice.voided", "invoice.marked_uncollectible"}
ProductUpdateTypes == {"product.created", "product.updated"}
PriceUpdateTypes == {"price.created", "price.updated"}
PaymentIntentTypes == {"payment_intent.succeeded", "payment_intent.canceled"}
HandledTypes ==
  {"checkout.session.completed", "customer.subscription.deleted",
   "product.deleted", "price.deleted", "customer.updated", "customer.deleted"}
  \cup SubscriptionUpdateTypes \cup InvoiceTypes \cup ProductUpdateTypes
  \cup PriceUpdateTypes \cup PaymentIntentTypes

\* The switch of handleWebhookEvent, without the callbacks.
HandleWebhookEvent(d, event) ==
  CASE event.type = "checkout.session.completed" -> HandleCheckoutComplete(d, event)
    [] event.type \in SubscriptionUpdateTypes -> HandleSubscriptionUpdate(d, event)
    [] event.type = "customer.subscription.deleted" -> HandleSubscriptionDelete(d, event)
    [] event.type \in InvoiceTypes -> HandleInvoiceEvent(d, event)
    [] event.type \in ProductUpdateTypes -> HandleProductUpdate(d, event)
    [] event.type = "product.deleted" -> HandleProductDeleted(d, event)
    [] event.type \in PriceUpdateTypes -> HandlePriceUpdate(d, event)
    [] event.type = "price.deleted" -> HandlePriceDeleted(d, event)
    [] event.type = "customer.updated" -> HandleCustomerUpdated(d, event)
    [] event.type = "customer.deleted" -> HandleCustomerDeleted(d, event)
    [] event.type \in PaymentIntentTypes -> HandlePaymentIntentEvent(d, event)
    [] OTHER -> Outcome(d, 0, 0)

\* A faulty dispatch that runs the checkout callback for every event type.
CallbackForAny(type) == "onCheckoutComplete"

\* The callback handleWebhookEvent invokes after the handler of a type.
CallbackFor(type) ==
  CASE type = "checkout.session.completed" -> "onCheckoutComplete"
    [] type = "customer.subscription.created" -> "onSubscriptionCreated"
    [] type = "customer.subscription.updated" -> "onSubscriptionUpdated"
    [] type = "customer.subscription.deleted" -> "onSubscriptionDeleted"
    [] type = "invoice.paid" -> "onInvoicePaid"
    [] type = "invoice.payment_failed" -> "onInvoiceFailed"
    [] OTHER -> None

AllCallbacks == {"onCheckoutComplete", "onSubscriptionCreated",
                 "onSubscriptionUpdated", "onSubscriptionDeleted",
                 "onInvoicePaid", "onInvoiceFailed"}

(***************************************************************************)
(* Signature verification.  The HMAC of the provider's library is modelled *)
(* symbolically: a signature names the payload and the secret it was       *)
(* computed over, and verifies only against exactly that pair.             *)
(***************************************************************************)
NoEvent == [type |-> None, livemode |-> FALSE, object |-> NoRow]
NoSignature == [payload |-> NoEvent, secret |-> None]
Sign(payload, secret) == [payload |-> payload, secret |-> secret]

WebhookSecret == "whsec_endpoint"
OtherSecret == "whsec_other"

\* A faulty verification that parses the body without checking the signature.
ConstructEventUnchecked(body, signature, secret) ==
  [ok |-> TRUE, event |-> body]

\* stripe.webhooks.constructEvent(body, signature, secret): the parsed body,
\* or an exception (ok = FALSE) when the signature does not verify.
ConstructEvent(body, signature, secret) ==
  IF signature = Sign(body, secret)
    THEN [ok |-> TRUE, event |-> body]
    ELSE [ok |-> FALSE, event |-> NoEvent]

(***************************************************************************)
(* Spec: the webhook endpoint.  One request at a time is received, gated   *)
(* by its signature, reconciled, followed by the caller's callback and     *)
(* answered.                                                               *)
(***************************************************************************)
MaxDeliveries == 2

Event(type, object) == [type |-> type, livemode |-> TRUE, object |-> object]

CustomerEvents ==
  {Event("customer.updated", StripeCustomer("cus_1", u, v)) :
     u \in {"u1", None}, v \in Versions}
  \cup {Event("customer.deleted", StripeCustomer("cus_1", "u1", 2))}
ProductEvents ==
  {Event("product.created", StripeProduct("prod_1", 1)),
   Event("product.updated", StripeProduct("prod_1", 2)),
   Event("product.updated", StripeProduct("prod_2", 1)),
   Event("product.deleted", StripeProduct("prod_1", 2))}
PriceEvents ==
  {Event("price.created", StripePrice("price_1", "prod_1", 1)),
   Event("price.updated", StripePrice("price_1", "prod_1", 2)),
   Event("price.created", StripePrice("price_2", "prod_2", 1)),
   Event("price.deleted", StripePrice("price_1", "prod_1", 2))}
SubscriptionEvents ==
  {Event("customer.subscription.created",
         StripeSubscription("sub_1", "cus_1", "price_1", 1)),
   Event("customer.subscription.updated",
         StripeSubscription("sub_1", "cus_1", "price_1", 2)),
   Event("customer.subscription.created",
         StripeSubscription("sub_2", "cus_2", "price_1", 1)),
   Event("customer.subscription.deleted",
         StripeSubscription("sub_1", "cus_1", "price_1", 2))}
InvoiceEvents ==
  {Event("invoice.finalized", StripeInvoice("in_1", "cus_1", 1)),
   Event("invoice.paid", StripeInvoice("in_1", "cus_1", 2)),
   Event("invoice.payment_failed", StripeInvoice("in_2", "cus_2", 1))}
OtherEvents ==
  {Event("payment_intent.succeeded", StripePaymentIntent("pi_1", "cus_1", 1)),
   Event("payment_intent.canceled", StripePaymentIntent("pi_1", None, 2)),
   Event("checkout.session.completed", [id |-> "cs_1"]),
   Event("charge.refunded", [id |-> "ch_1"])}
Events == CustomerEvents \cup ProductEvents \cup PriceEvents
          \cup SubscriptionEvents \cup InvoiceEvents \cup OtherEvents

\* A body altered in transit: the same event with one field changed.
Tamper(body) == [body EXCEPT !.livemode = ~@]

SignatureKinds == {"absent", "valid", "tampered", "wrongSecret"}

\* A store with the catalog and one customer mirrored, as the deliveries
\* product.created, price.created, customer.updated leave it.
Mirrored ==
  HandleCustomerUpdated(
    HandlePriceUpdate(
      HandleProductUpdate(EmptyDb,
        Event("product.created", StripeProduct("prod_1", 1))).db,
      Event("price.created", StripePrice("price_1", "prod_1", 1))).db,
    Event("customer.updated", StripeCustomer("cus_1", "u1", 1))).db

\* A mirror that drifted: the row of sub_1 is out of date, and the row of
\* sub_9 outlived its subscription because the deletion event was lost.
Drifted ==
  HandleSubscriptionUpdate(
    HandleSubscriptionUpdate(Mirrored,
      Event("customer.subscription.updated",
            StripeSubscription("sub_1", "cus_1", "price_1", 2))).db,
    Event("customer.subscription.created",
          StripeSubscription("sub_9", "cus_1", "price_1", 1))).db

Idle(config, max) ==
  [pc |-> "idle", config |-> config, max |-> max, body |-> NoEvent,
   signature |-> NoSignature, event |-> NoEvent, status |-> 0, reads |-> 0,
   writes |-> 0, cb |-> None, pre |-> EmptyDb, n |-> 0, redelivery |-> FALSE,
   threw |-> FALSE]

\* A request arrives: the raw body and the stripe-signature header.
ReceiveFrom(events) ==
  /\ wh.pc = "idle"
  /\ \E e \in events, kind \in SignatureKinds :
       /\ kind = "valid" => wh.n < wh.max
       /\ wh' = [wh EXCEPT
            !.pc = "received",
            !.body = IF kind = "tampered" THEN Tamper(e) ELSE e,
            !.signature = CASE kind = "absent" -> NoSignature
                            [] kind = "wrongSecret" -> Sign(e, OtherSecret)
                            [] OTHER -> Sign(e, WebhookSecret),
            !.pre = db]
  /\ UNCHANGED <<db, calls, last, remote, sy>>

Receive == ReceiveFrom(Events)

\* The provider delivers at least once: the request just answered after
\* verification arrives again, byte for byte.
Redeliver ==
  /\ wh.pc = "responded"
  /\ wh.status \in {200, 500}
  /\ wh.n < wh.max
  /\ wh' = [Idle(wh.config, wh.max) EXCEPT
            !.pc = "received", !.body = wh.body, !.signature = wh.signature,
            !.pre = db, !.n = wh.n, !.redelivery = TRUE]
  /\ UNCHANGED <<db, calls, last, remote, sy>>

\* The connection of an answered request is closed.
Close ==
  /\ wh.pc = "responded"
  /\ wh' = [Idle(wh.config, wh.max) EXCEPT !.n = wh.n]
  /\ UNCHANGED <<db, calls, last, remote, sy>>

\* if (!signature) return 400
RejectMissingSignature ==
  /\ wh.pc = "received"
  /\ wh.signature = NoSignature
  /\ wh' = [wh EXCEPT !.pc = "responded", !.status = 400]
  /\ UNCHANGED <<db, calls, last, remote, sy>>

\* constructEvent threw: return 403
RejectInvalidSignature ==
  /\ wh.pc = "received"
  /\ wh.signature # NoSignature
  /\ ~ConstructEvent(wh.body, wh.signature, WebhookSecret).ok
  /\ wh' = [wh EXCEPT !.pc = "responded", !.status = 403]
  /\ UNCHANGED <<db, calls, last, remote, sy>>

\* The verified event of the request in flight.
Verified == ConstructEvent(wh.body, wh.signature, WebhookSecret)

\* One case of the switch: the handler of the event's type runs to its end.
Case(matches, r) ==
  /\ wh.pc = "received"
  /\ wh.signature # NoSignature
  /\ Verified.ok
  /\ matches
  /\ wh.n < wh.max
  /\ db' = r.db
  /\ wh' = [wh EXCEPT !.pc = "handled", !.event = Verified.event,
                      !.reads = r.reads, !.writes = r.writes, !.n = @ + 1]
  /\ UNCHANGED <<calls, last, remote, sy>>

CaseCheckoutComplete ==
  Case(Verified.event.type = "checkout.session.completed",
       HandleCheckoutComplete(db, Verified.event))
CaseSubscriptionUpdate ==
  Case(Verified.event.type \in SubscriptionUpdateTypes,
       HandleSubscriptionUpdate(db, Verified.event))
CaseSubscriptionDelete ==
  Case(Verified.event.type = "customer.subscription.deleted",
       HandleSubscriptionDelete(db, Verified.event))
CaseInvoiceEvent ==
  Case(Verified.event.type \in InvoiceTypes,
       HandleInvoiceEvent(db, Verified.event))
CaseProductUpdate ==
  Case(Verified.event.type \in ProductUpdateTypes,
       HandleProductUpdate(db, Verified.event))
CaseProductDeleted ==
  Case(Verified.event.type = "product.deleted",
       HandleProductDeleted(db, Verified.event))
CasePriceUpdate ==
  Case(Verified.event.type \in PriceUpdateTypes,
       HandlePriceUpdate(db, Verified.event))
CasePriceDeleted ==
  Case(Verified.event.type = "price.deleted",
       HandlePriceDeleted(db, Verified.event))
CaseCustomerUpdated ==
  Case(Verified.event.type = "customer.updated",
       HandleCustomerUpdated(db, Verified.event))
CaseCustomerDeleted ==
  Case(Verified.event.type = "customer.deleted",
       HandleCustomerDeleted(db, Verified.event))
CasePaymentIntentEvent ==
  Case(Verified.event.type \in PaymentIntentTypes,
       HandlePaymentIntentEvent(db, Verified.event))
CaseDefault ==
  Case(Verified.event.type \notin HandledTypes, Outcome(db, 0, 0))

\* A faulty route that answers 200 whatever handleWebhookEvent did.
HandlerResponseSwallow(threw) == 200

\* try { await handleWebhookEvent(...) } catch { return 500 }; return 200
HandlerResponse(threw) == IF threw THEN 500 ELSE 200

\* A faulty route that undoes the handler's write when the callback throws.
InvokeCallbackRollback ==
  /\ wh.pc = "handled"
  /\ CallbackFor(wh.event.type) \in wh.config
  /\ \E throws \in BOOLEAN :
       /\ wh' = [wh EXCEPT !.pc = "responded",
                           !.cb = CallbackFor(wh.event.type),
                           !.threw = throws,
                           !.status = HandlerResponse(throws)]
       /\ db' = IF throws THEN wh.pre ELSE db
  /\ UNCHANGED <<calls, last, remote, sy>>

\* The configured callback of the event's type runs after the handler has
\* returned; it returns, or throws and the response is 500.
InvokeCallback ==
  /\ wh.pc = "handled"
  /\ CallbackFor(wh.event.type) \in wh.config
  /\ \E throws \in BOOLEAN :
       wh' = [wh EXCEPT !.pc = "responded",
                        !.cb = CallbackFor(wh.event.type),
                        !.threw = throws,
                        !.status = HandlerResponse(throws)]
  /\ UNCHANGED <<db, calls, last, remote, sy>>

\* No callback applies: return 200.
Respond ==
  /\ wh.pc = "handled"
  /\ CallbackFor(wh.event.type) \notin wh.config
  /\ wh' = [wh EXCEPT !.pc = "responded", !.status = HandlerResponse(FALSE)]
  /\ UNCHANGED <<db, calls, last, remote, sy>>

Init ==
  /\ db \in {EmptyDb, Mirrored}
  /\ wh \in {Idle(AllCallbacks, MaxDeliveries), Idle({}, MaxDeliveries)}
  /\ calls = 0
  /\ last = NoCall
  /\ remote = << >>
  /\ sy = NoRow

Next ==
  \/ Receive
  \/ Redeliver
  \/ Close
  \/ RejectMissingSignature
  \/ RejectInvalidSignature
  \/ CaseCheckoutComplete
  \/ CaseSubscriptionUpdate
  \/ CaseSubscriptionDelete
  \/ CaseInvoiceEvent
  \/ CaseProductUpdate
  \/ CaseProductDeleted
  \/ CasePriceUpdate
  \/ CasePriceDeleted
  \/ CaseCustomerUpdated
  \/ CaseCustomerDeleted
  \/ CasePaymentIntentEvent
  \/ CaseDefault
  \/ InvokeCallback
  \/ Respond

Spec == Init /\ [][Next]_vars

\* A request that must not pass the gate: no header, or a signature that is
\* not the one computed over this body with the endpoint's secret.
Unverifiable ==
  wh.signature = NoSignature \/ wh.signature # Sign(wh.body, WebhookSecret)

\* C3: a request whose signature header is absent or does not verify against
\* the raw body and the shared secret is never reconciled: no query, no
\* mutation and no callback runs for it, the store stays as it was when the
\* request arrived, and the answer is 400 (no header) or 403 (not verified).
C3_SignatureGate ==
  (wh.pc # "idle" /\ Unverifiable) =>
    /\ wh.pc \in {"received", "responded"}
    /\ wh.reads = 0 /\ wh.writes = 0 /\ wh.cb = None
    /\ wh.event = NoEvent
    /\ db = wh.pre
    /\ wh.pc = "responded" =>
         wh.status = IF wh.signature = NoSignature THEN 400 ELSE 403

\* C3 witness: a tampered body carrying the signature computed over the
\* original body with the right secret was answered 403, although reconciling
\* the body would have changed the store.
C3_Witness ==
  /\ wh.pc = "responded"
  /\ wh.status = 403
  /\ wh.signature.secret = WebhookSecret
  /\ wh.body = Tamper(wh.signature.payload)
  /\ HandleWebhookEvent(db, wh.body).db # db

C4Callbacks == {"onSubscriptionCreated", "onSubscriptionUpdated",
                "onInvoicePaid", "onInvoiceFailed"}

\* The mirror holds a row for the event's remote id that reflects the payload.
Reflects(d, event) ==
  IF event.type \in SubscriptionUpdateTypes
    THEN \E r \in d.subscriptions :
           /\ r.stripeId = event.object.id
           /\ r.status = event.object.status
           /\ r.cancelAtPeriodEnd = event.object.cancel_at_period_end
    ELSE \E r \in d.invoices :
           /\ r.stripeId = event.object.id
           /\ r.status = OrElse(event.object.status, "draft")
           /\ r.amountPaid = event.object.amount_paid

\* C4: whenever onSubscriptionCreated, onSubscriptionUpdated, onInvoicePaid
\* or onInvoiceFailed has been invoked for an event, the mirror holds a row
\* for the event's remote id that reflects the event's payload.
C4_CallbackAfterPersistence ==
  wh.cb \in C4Callbacks => Reflects(db, wh.event)

\* C6: reconciling a verified event a second time right after the first
\* leaves the store as the first reconciliation left it, for every event and
\* every store the endpoint can reach between two requests; and a redelivered
\* request, once handled, has changed nothing.
C6_RedeliveryIdempotent ==
  /\ wh.pc = "idle" =>
       \A e \in Events :
         HandleWebhookEvent(HandleWebhookEvent(db, e).db, e).db
           = HandleWebhookEvent(db, e).db
  /\ (wh.redelivery /\ wh.pc \in {"handled", "responded"}) => db = wh.pre

\* C6 witness: a redelivered event was reconciled, its handler ran a
\* mutation, and the store is what the first delivery left.
C6_Witness ==
  /\ wh.redelivery
  /\ wh.pc = "handled"
  /\ wh.writes > 0
  /\ wh.event.type \in SubscriptionUpdateTypes \cup InvoiceTypes
  /\ db = wh.pre
  /\ db # EmptyDb /\ db # Mirrored

(***************************************************************************)
(* LifecycleSpec: the same endpoint, fed only customer and subscription    *)
(* events, in any order (the provider does not order its deliveries), for  *)
(* longer runs starting from a mirrored catalog and customer.              *)
(***************************************************************************)
MaxLifecycleDeliveries == 4

LifecycleEvents ==
  CustomerEvents \cup SubscriptionEvents
  \cup {Event("customer.updated", StripeCustomer("cus_1", "u2", 2))}

ReceiveLifecycle == ReceiveFrom(LifecycleEvents)

LifecycleInit ==
  /\ db \in {Mirrored, Drifted}
  /\ wh = Idle(AllCallbacks, MaxLifecycleDeliveries)
  /\ calls = 0
  /\ last = NoCall
  /\ remote = << >>
  /\ sy = NoRow

LifecycleNext ==
  \/ ReceiveLifecycle
  \/ Redeliver
  \/ Close
  \/ RejectMissingSignature
  \/ RejectInvalidSignature
  \/ CaseSubscriptionUpdate
  \/ CaseSubscriptionDelete
  \/ CaseCustomerUpdated
  \/ CaseCustomerDeleted
  \/ InvokeCallback
  \/ Respond

LifecycleSpec == LifecycleInit /\ [][LifecycleNext]_vars

\* C10: when the store holds a customer row and a price row as a
\* customer.subscription.created or .updated event referencing them arrives,
\* the reconciled store holds exactly one subscription row for the event's
\* remote id, whose userId is the customer's userId, whose customerId is the
\* customer's local id, whose status is the event's status and whose priceId
\* is the price's local id.
C10_SubscriptionReconciled ==
  (wh.pc = "handled" /\ wh.event.type \in SubscriptionUpdateTypes) =>
    LET subscription == wh.event.object
        customer == GetCustomerByStripeId(wh.pre, subscription.customer)
        price == GetPriceByStripeId(wh.pre, subscription.price)
        rows == ByStripeId(db, "subscriptions", subscription.id)
    IN (customer # NoRow /\ price # NoRow) =>
         /\ Cardinality(rows) = 1
         /\ \A r \in rows :
              /\ r.userId = customer.userId
              /\ r.customerId = customer._id
              /\ r.status = subscription.status
              /\ r.priceId = price._id

(***************************************************************************)
(* The provider's list endpoints.  A list call returns the next items      *)
(* after the cursor, at most `limit` of them, and has_more tells whether   *)
(* items remain after the page.  The provider may return a page shorter    *)
(* than the limit; it never returns an empty page while items remain.      *)
(***************************************************************************)
PageLimit == 100

Min(a, b) == IF a <= b THEN a ELSE b
Last(s) == s[Len(s)]

\* The items listed after the one whose id is `cursor` (all, without cursor).
AfterCursor(list, cursor) ==
  IF cursor = None THEN list
  ELSE LET k == CHOOSE i \in 1..Len(list) : list[i].id = cursor
       IN SubSeq(list, k + 1, Len(list))

\* The responses a list call may get.
ListPage(list, limit, cursor) ==
  LET rest == AfterCursor(list, cursor) IN
  {[data |-> SubSeq(rest, 1, k), has_more |-> (k < Len(rest))] :
     k \in IF rest = << >> THEN {0} ELSE 1..Min(limit, Len(rest))}

(***************************************************************************)
(* SyncSpec: syncSubscriptions, the subscription backfill.                 *)
(***************************************************************************)
MaxRemote == 3

\* The arguments syncSubscriptions passes to upsertSubscription.
SyncSubscriptionArgs(subscription, customerId, userId, priceDoc) ==
  [stripeId |-> subscription.id,
   customerId |-> customerId,
   customerStripeId |-> subscription.customer,
   userId |-> userId,
   status |-> subscription.status,
   priceId |-> IF priceDoc # NoRow THEN priceDoc._id ELSE 0,
   priceStripeId |-> subscription.price,
   \* priceDoc?.slug?.split("-")[0]
   productSlug |-> IF priceDoc # NoRow /\ priceDoc.slug # NoSlug
                     THEN <<Head(priceDoc.slug)>> ELSE NoSlug,
   currency |-> subscription.currency,
   \* extractSubscriptionPeriod: the first item's period, 0 without items
   currentPeriodStart |-> subscription.current_period_start,
   currentPeriodEnd |-> subscription.current_period_end,
   cancelAtPeriodEnd |-> subscription.cancel_at_period_end,
   canceledAt |-> subscription.canceled_at,
   endedAt |-> subscription.ended_at,
   trialStart |-> subscription.trial_start,
   trialEnd |-> subscription.trial_end,
   created |-> subscription.created,
   metadata |-> subscription.metadata]

\* A faulty loop body that also writes subscriptions of unknown customers.
SyncSubscriptionOrphan(d, subscription) ==
  LET customer == GetCustomerByStripeId(d, subscription.customer)
      priceDoc == GetPriceByStripeId(d, subscription.price)
  IN IF subscription.price = None
       THEN [db |-> d, outcome |-> "noPrice", writes |-> 0]
       ELSE [db |-> UpsertSubscription(d,
                      SyncSubscriptionArgs(subscription, customer._id,
                        IF customer = NoRow THEN None ELSE customer.userId,
                        priceDoc)).db,
             outcome |-> "upserted", writes |-> 1]

\* The body of the loop over a page, for one listed subscription.
SyncSubscription(d, subscription) ==
  LET customer == GetCustomerByStripeId(d, subscription.customer)
      priceDoc == GetPriceByStripeId(d, subscription.price)
  IN IF customer = NoRow
       THEN [db |-> d, outcome |-> "noCustomer", writes |-> 0]
     ELSE IF subscription.price = None
       THEN [db |-> d, outcome |-> "noPrice", writes |-> 0]
     ELSE [db |-> UpsertSubscription(d,
                    SyncSubscriptionArgs(subscription, customer._id,
                                         customer.userId, priceDoc)).db,
           outcome |-> "upserted", writes |-> 1]

\* A faulty cursor update that never advances.
NextCursorStuck(startingAfter, hasMore, data) == startingAfter

\* if (hasMore && data.length > 0) startingAfter = data[data.length - 1]?.id
NextCursor(startingAfter, hasMore, data) ==
  IF hasMore /\ Len(data) > 0 THEN Last(data).id ELSE startingAfter

\* The provider's subscriptions: one customer is mirrored (cus_1) and one is
\* not (cus_2); one price is mirrored (price_1) and one is not (price_2).
RemoteSubscriptions ==
  {StripeSubscription("sub_1", "cus_1", "price_1", 1),
   StripeSubscription("sub_2", "cus_2", "price_1", 1),
   StripeSubscription("sub_3", "cus_1", "price_2", 2),
   StripeSubscription("sub_4", "cus_1", None, 1)}

RemoteLists ==
  UNION {{l \in [1..n -> RemoteSubscriptions] :
            \A i, j \in 1..n : i # j => l[i].id # l[j].id} : n \in 0..MaxRemote}

SyncStart ==
  [pc |-> "list", startingAfter |-> None, hasMore |-> TRUE, data |-> << >>,
   i |-> 1, cursors |-> << >>, pages |-> << >>, log |-> << >>]

\* stripe.subscriptions.list({limit: 100, starting_after: startingAfter})
SyncList ==
  /\ sy.pc = "list"
  /\ sy.hasMore
  /\ \E page \in ListPage(remote, PageLimit, sy.startingAfter) :
       sy' = [sy EXCEPT !.pc = "page", !.data = page.data, !.i = 1,
                        !.hasMore = page.has_more,
                        !.cursors = Append(@, sy.startingAfter),
                        !.pages = Append(@, [k \in 1..Len(page.data) |->
                                               page.data[k].id])]
  /\ UNCHANGED <<db, calls, last, wh, remote>>

\* One turn of the loop over the page.
SyncItem ==
  /\ sy.pc = "page"
  /\ sy.i <= Len(sy.data)
  /\ LET r == SyncSubscription(db, sy.data[sy.i]) IN
       /\ db' = r.db
       /\ sy' = [sy EXCEPT !.i = @ + 1,
                           !.log = Append(@, [id |-> sy.data[sy.i].id,
                                              outcome |-> r.outcome,
                                              writes |-> r.writes,
                                              changed |-> (r.db # db)])]
  /\ UNCHANGED <<calls, last, wh, remote>>

\* The page is exhausted: the cursor moves and the while condition is tested.
SyncPageEnd ==
  /\ sy.pc = "page"
  /\ sy.i > Len(sy.data)
  /\ sy' = [sy EXCEPT
       !.startingAfter = NextCursor(sy.startingAfter, sy.hasMore, sy.data),
       !.pc = IF sy.hasMore THEN "list" ELSE "done"]
  /\ UNCHANGED <<db, calls, last, wh, remote>>

SyncInit ==
  /\ db \in {Mirrored, Drifted}
  /\ remote \in RemoteLists
  /\ sy = SyncStart
  /\ calls = 0
  /\ last = NoCall
  /\ wh = NoRow

SyncNext ==
  \/ SyncList
  \/ SyncItem
  \/ SyncPageEnd

\* The sync is one async function: it runs on until its loop ends.
SyncSpec == SyncInit /\ [][SyncNext]_vars /\ WF_vars(SyncNext)

RemoteIds == [k \in 1..Len(remote) |-> remote[k].id]
LogIds == [k \in 1..Len(sy.log) |-> sy.log[k].id]

\* Every listed subscription has its customer and its price in the mirror.
AllMirrored ==
  \A k \in 1..Len(remote) :
    /\ GetCustomerByStripeId(db, remote[k].customer) # NoRow
    /\ remote[k].price # None
    /\ GetPriceByStripeId(db, remote[k].price) # NoRow

\* C5: once the subscription backfill has run to its end over a provider
\* that no longer changes, with every customer and price mirrored, each
\* remote subscription has a local row whose mutable fields are the remote
\* values, and no local row is left for a subscription the provider does not
\* have.
C5_BackfillRestoresAgreement ==
  (sy.pc = "done" /\ AllMirrored) =>
    /\ \A k \in 1..Len(remote) :
         \E r \in db.subscriptions :
           /\ r.stripeId = remote[k].id
           /\ r.status = remote[k].status
           /\ r.priceStripeId = remote[k].price
           /\ r.currency = remote[k].currency
           /\ r.cancelAtPeriodEnd = remote[k].cancel_at_period_end
           /\ r.canceledAt = remote[k].canceled_at
           /\ r.endedAt = remote[k].ended_at
    /\ \A r \in db.subscriptions :
         \E k \in 1..Len(remote) : remote[k].id = r.stripeId

\* The safety half of C7.
PaginationInv ==
  /\ Len(sy.cursors) = Len(sy.pages)
  /\ \A k \in 1..Len(sy.cursors) :
       sy.cursors[k] = IF k = 1 THEN None ELSE Last(sy.pages[k - 1])
  /\ Len(sy.log) <= Len(remote)
  /\ LogIds = SubSeq(RemoteIds, 1, Len(sy.log))
  /\ sy.pc = "done" => (LogIds = RemoteIds /\ ~sy.hasMore)

\* C7: fed a provider whose list calls return a finite sequence of pages,
\* syncSubscriptions passes no cursor to the first call and to every later
\* call the id of the last item of the previous page, processes the listed
\* subscriptions in order, each exactly once, and terminates after the page
\* that reports has_more = false.
C7_PaginationTerminates == []PaginationInv /\ <>(sy.pc = "done")

\* C7 witness: a run of three list calls has ended, every subscription
\* processed once.
C7_Witness ==
  /\ sy.pc = "done"
  /\ Len(sy.pages) = 3
  /\ Len(sy.log) = 3
  /\ Cardinality({sy.log[k].id : k \in 1..Len(sy.log)}) = 3

\* C9: a listed subscription is skipped exactly when its customer has no
\* local row; a skipped subscription causes no mutation and no change of the
\* store, and the run goes on to every later item of the page and of the
\* later pages.
C9_ReferentialDrop ==
  /\ \A k \in 1..Len(sy.log) :
       /\ sy.log[k].outcome = "noCustomer"
            <=> GetCustomerByStripeId(db, remote[k].customer) = NoRow
       /\ sy.log[k].outcome = "noCustomer" =>
            (sy.log[k].writes = 0 /\ ~sy.log[k].changed)
  /\ sy.pc = "done" => LogIds = RemoteIds
  /\ \A r \in db.subscriptions :
       GetCustomerByStripeId(db, r.customerStripeId) # NoRow

\* C9 witness: the run has ended; a subscription of an unknown customer was
\* skipped, and a later item of the same page and an item of a later page
\* were upserted.
C9_Witness ==
  /\ sy.pc = "done"
  /\ Len(sy.log) = 3
  /\ sy.log[1].outcome = "noCustomer"
  /\ sy.log[2].outcome = "upserted"
  /\ sy.log[3].outcome = "upserted"
  /\ sy.pages = <<<<sy.log[1].id, sy.log[2].id>>, <<sy.log[3].id>>>>

(***************************************************************************)
(* CatalogSpec: syncProducts, the product and price backfill.  Here        *)
(* `remote` lists the provider's products, each with its prices.           *)
(***************************************************************************)
MaxProducts == 2
MaxPrices == 2
MaxRuns == 2

\* The prices the provider holds for a product, in list order.
PricesOf(productStripeId) ==
  CASE productStripeId = "prod_1" ->
         <<StripePrice("price_1", "prod_1", 2), StripePrice("price_2", "prod_1", 1),
           StripePrice("price_3", "prod_1", 2)>>
    [] productStripeId = "prod_2" -> <<StripePrice("price_4", "prod_2", 1)>>
    [] OTHER -> << >>

CatalogEntry(productStripeId, n) ==
  [product |-> StripeProduct(productStripeId, 2),
   prices |-> SubSeq(PricesOf(productStripeId), 1,
                     Min(n, Len(PricesOf(productStripeId))))]

Catalogs ==
  UNION {{[k \in 1..m |-> CatalogEntry(ids[k], n)] :
            ids \in {l \in [1..m -> {"prod_1", "prod_2", "prod_3"}] :
                       \A i, j \in 1..m : i # j => l[i] # l[j]},
            n \in 0..MaxPrices} : m \in 0..MaxProducts}

\* products.list({active: true, ...}): the active products only.
ActiveProducts(list) == SelectSeq(list, LAMBDA e : e.product.active)

\* `run` counts the calls of syncProducts, `truncated` records that a listing
\* answered has_more = true (which the code never reads) and `rows` is the
\* number of product and price rows the previous run left.
SyncProductsStart ==
  [pc |-> "listProducts", products |-> << >>, i |-> 1, productId |-> 0,
   prices |-> << >>, j |-> 1, run |-> 1, truncated |-> FALSE,
   rows |-> [products |-> 0, prices |-> 0]]

\* const products = await stripe.products.list({active: true, limit: 100})
SyncProductsList ==
  /\ sy.pc = "listProducts"
  /\ \E page \in ListPage(ActiveProducts(remote), PageLimit, None) :
       sy' = [sy EXCEPT !.pc = "product", !.products = page.data, !.i = 1,
                        !.truncated = @ \/ page.has_more]
  /\ UNCHANGED <<db, calls, last, wh, remote>>

\* const productId = await runMutation(upsertProduct, ...)
SyncProductsUpsertProduct ==
  /\ sy.pc = "product"
  /\ sy.i <= Len(sy.products)
  /\ LET product == sy.products[sy.i].product
         r == UpsertProduct(db,
                [stripeId |-> product.id,
                 name |-> product.name,
                 description |-> product.description,
                 active |-> product.active,
                 type |-> product.type,
                 slug |-> SlugOfProduct(product.id),
                 created |-> product.created,
                 updated |-> product.updated,
                 metadata |-> product.metadata])
     IN /\ db' = r.db
        /\ sy' = [sy EXCEPT !.productId = r.ret,
                            !.pc = IF r.ret = 0 THEN "product" ELSE "listPrices",
                            !.i = IF r.ret = 0 THEN @ + 1 ELSE @]
  /\ UNCHANGED <<calls, last, wh, remote>>

\* const prices = await stripe.prices.list({product: product.id, limit: 100})
SyncProductsListPrices ==
  /\ sy.pc = "listPrices"
  /\ \E page \in ListPage(sy.products[sy.i].prices, PageLimit, None) :
       sy' = [sy EXCEPT !.pc = "price", !.prices = page.data, !.j = 1,
                        !.truncated = @ \/ page.has_more]
  /\ UNCHANGED <<db, calls, last, wh, remote>>

\* One turn of the loop over prices.data.
SyncProductsUpsertPrice ==
  /\ sy.pc = "price"
  /\ sy.j <= Len(sy.prices)
  /\ LET product == sy.products[sy.i].product
         price == sy.prices[sy.j]
     IN db' = UpsertPrice(db,
                [stripeId |-> price.id,
                 productId |-> sy.productId,
                 productStripeId |-> product.id,
                 active |-> price.active,
                 currency |-> price.currency,
                 unitAmount |-> price.unit_amount,
                 billingScheme |-> price.billing_scheme,
                 type |-> price.type,
                 recurringInterval |-> price.interval,
                 recurringIntervalCount |-> price.interval_count,
                 slug |-> PriceSlug(SlugOfProduct(product.id), price),
                 created |-> price.created,
                 metadata |-> price.metadata]).db
  /\ sy' = [sy EXCEPT !.j = @ + 1]
  /\ UNCHANGED <<calls, last, wh, remote>>

\* prices.data is exhausted: on to the next product.
SyncProductsNextProduct ==
  /\ sy.pc = "price"
  /\ sy.j > Len(sy.prices)
  /\ sy' = [sy EXCEPT !.pc = "product", !.i = @ + 1]
  /\ UNCHANGED <<db, calls, last, wh, remote>>

\* products.data is exhausted: syncProducts returns.
SyncProductsReturn ==
  /\ sy.pc = "product"
  /\ sy.i > Len(sy.products)
  /\ sy' = [sy EXCEPT !.pc = "done"]
  /\ UNCHANGED <<db, calls, last, wh, remote>>

\* syncProducts is called again after it returned.
SyncProductsAgain ==
  /\ sy.pc = "done"
  /\ sy.run < MaxRuns
  /\ sy' = [SyncProductsStart EXCEPT
            !.run = sy.run + 1,
            !.truncated = sy.truncated,
            !.rows = [products |-> Cardinality(db.products),
                      prices |-> Cardinality(db.prices)]]
  /\ UNCHANGED <<db, calls, last, wh, remote>>

CatalogInit ==
  /\ db \in {EmptyDb, Mirrored}
  /\ remote \in Catalogs
  /\ sy = SyncProductsStart
  /\ calls = 0
  /\ last = NoCall
  /\ wh = NoRow

CatalogNext ==
  \/ SyncProductsList
  \/ SyncProductsUpsertProduct
  \/ SyncProductsListPrices
  \/ SyncProductsUpsertPrice
  \/ SyncProductsNextProduct
  \/ SyncProductsReturn
  \/ SyncProductsAgain

CatalogSpec == CatalogInit /\ [][CatalogNext]_vars /\ WF_vars(CatalogNext)

\* C8: after syncProducts has finished, every active remote product has a
\* local product row and every remote price of such a product has a local
\* price row, however many products and prices the provider holds.
C8_ProductBackfillComplete ==
  sy.pc = "done" =>
    \A k \in 1..Len(remote) :
      remote[k].product.active =>
        /\ GetProductByStripeId(db, remote[k].product.id) # NoRow
        /\ \A j \in 1..Len(remote[k].prices) :
             GetPriceByStripeId(db, remote[k].prices[j].id) # NoRow

\* C11: reconciling customer.subscription.deleted removes the local row of
\* the event's remote id and no other row of any table; when no such row
\* exists (never written, or removed by an earlier delivery of the same
\* event) the store is left as it was.  The handler raises nothing: the
\* request is answered 200, unless the caller's own onSubscriptionDeleted
\* callback throws.
C11_DeleteSubscriptionExact ==
  LET was == {r \in wh.pre.subscriptions : r.stripeId = wh.event.object.id} IN
  (wh.pc \in {"handled", "responded"}
     /\ wh.event.type = "customer.subscription.deleted") =>
    /\ db.subscriptions = wh.pre.subscriptions \ was
    /\ \A t \in Tables \ {"subscriptions"} : db[t] = wh.pre[t]
    /\ was = {} => db = wh.pre
    /\ wh.redelivery => db = wh.pre
    /\ wh.pc = "responded" =>
         \/ wh.status = 200
         \/ wh.status = 500 /\ wh.cb = "onSubscriptionDeleted"

\* C11 witness: the deletion of sub_1 is delivered a second time and answered
\* 200; the row of sub_1, present at the start, is gone and the row of sub_9
\* is still there.
C11_Witness ==
  /\ wh.pc = "responded"
  /\ wh.redelivery
  /\ wh.status = 200
  /\ wh.event.type = "customer.subscription.deleted"
  /\ wh.event.object.id = "sub_1"
  /\ ByStripeId(db, "subscriptions", "sub_1") = {}
  /\ ByStripeId(db, "subscriptions", "sub_9") # {}

\* C12: a subscription whose first item's price belongs to a product
\* configured under slug S is stored with productSlug = S, both by the
\* subscription webhook handler and by syncSubscriptions run on the same
\* store for the same remote subscription.
C12_SameProductSlug ==
  (wh.pc \in {"handled", "responded"}
     /\ wh.event.type \in SubscriptionUpdateTypes) =>
    LET subscription == wh.event.object
        price == GetPriceByStripeId(wh.pre, subscription.price)
        S == IF price = NoRow THEN NoSlug
             ELSE SlugOfProduct(price.productStripeId)
        viaWebhook == GetSubscriptionByStripeId(db, subscription.id)
        viaSync == GetSubscriptionByStripeId(
                     SyncSubscription(wh.pre, subscription).db, subscription.id)
    IN (S # NoSlug
          /\ GetCustomerByStripeId(wh.pre, subscription.customer) # NoRow) =>
         /\ viaWebhook.productSlug = S
         /\ viaSync.productSlug = S

\* ---------------------------------------------------------------------
\* The webhook route with a backend that may fail: a query or the mutation
\* of a handler rejects, the exception leaves handleWebhookEvent and the
\* route answers 500.  A failed mutation is rolled back, and a handler runs
\* at most one mutation, so nothing is written and no callback runs.
ReconciliationThrows ==
  /\ wh.pc = "received"
  /\ wh.signature # NoSignature
  /\ Verified.ok
  /\ Verified.event.type \in HandledTypes
  /\ wh.n < wh.max
  /\ wh' = [wh EXCEPT !.pc = "responded", !.event = Verified.event,
                      !.threw = TRUE, !.status = HandlerResponse(TRUE),
                      !.n = @ + 1]
  /\ UNCHANGED <<db, calls, last, remote, sy>>

FaultNext ==
  \/ Next
  \/ ReconciliationThrows

FaultSpec == Init /\ [][FaultNext]_vars

\* C13: a request that passed verification is answered 200 when
\* reconciliation and the optional callback completed without an exception
\* (unknown event types and dropped events included) and 500 when either
\* threw; an unverified request is answered 400 or 403; so every answer is
\* one of 200, 400, 403, 500, and a request in flight can always be answered.
C13_ResponseCodes ==
  /\ wh.pc = "responded" =>
       /\ wh.status \in {200, 400, 403, 500}
       /\ wh.event # NoEvent =>
            wh.status = (IF wh.threw THEN 500 ELSE 200)
       /\ wh.event = NoEvent => wh.status \in {400, 403} /\ ~wh.threw
  /\ wh.pc \in {"received", "handled"} => ENABLED FaultNext

\* C13 witness: reconciliation of a verified subscription event threw before
\* anything was written, no callback ran and the answer is 500.
C13_Witness ==
  /\ wh.pc = "responded"
  /\ wh.event.type \in SubscriptionUpdateTypes
  /\ wh.threw
  /\ wh.cb = None
  /\ wh.status = 500
  /\ db = wh.pre

\* C14: a verified event whose type the switch does not list causes no store
\* read and no store write, runs no callback, and is answered 200.
C14_UnknownTypeIgnored ==
  /\ (wh.pc \in {"handled", "responded"}
        /\ wh.event # NoEvent
        /\ wh.event.type \notin HandledTypes) =>
       /\ wh.reads = 0
       /\ wh.writes = 0
       /\ db = wh.pre
       /\ wh.cb = None
       /\ wh.pc = "responded" => wh.status = 200
  /\ wh.pc = "idle" =>
       \A e \in Events :
         e.type \notin HandledTypes =>
           HandleWebhookEvent(db, e) = Outcome(db, 0, 0)

\* C14 witness: a verified charge.refunded event was answered while every
\* callback is configured and the store holds rows.
C14_Witness ==
  /\ wh.pc = "responded"
  /\ wh.event.type = "charge.refunded"
  /\ wh.config = AllCallbacks
  /\ wh.status = 200
  /\ db.customers # {}

\* C15: upsertProduct for a remote id that already has a row sets that row's
\* name, description, active, type, slug, updated and metadata to the
\* arguments, adds no row, returns the row's local id, and leaves its remote
\* id, local id and created, every other row and every other table as they
\* were, whatever `created` the arguments carry.
C15_UpsertProductFrame ==
  /\ \A args \in UpsertProductArgs :
       LET existing == GetProductByStripeId(db, args.stripeId)
           r == UpsertProduct(db, args)
           row == GetProductByStripeId(r.db, args.stripeId)
       IN existing # NoRow =>
            /\ \A f \in ProductMutable : row[f] = args[f]
            /\ row._id = existing._id
            /\ row.stripeId = existing.stripeId
            /\ row.created = existing.created
            /\ r.ret = existing._id
            /\ r.db.products \ {row} = db.products \ {existing}
            /\ Cardinality(r.db.products) = Cardinality(db.products)
            /\ \A t \in Tables \ {"products"} : r.db[t] = db[t]
            /\ r.db.ids = db.ids
  /\ (last.op = "upsertProduct" /\ last.existed) =>
       LET row == GetProductByStripeId(db, last.args.stripeId) IN
       /\ \A f \in ProductMutable : row[f] = last.args[f]
       /\ last.ret = row._id
       /\ db.ids.products = Cardinality(db.products)

\* C15 witness: upsertProduct was just called for an existing row with another
\* name, another active flag and another created; the row changed and kept
\* the created it was inserted with.
C15_Witness ==
  /\ last.op = "upsertProduct"
  /\ last.existed
  /\ ~last.noDiff
  /\ LET row == GetProductByStripeId(db, last.args.stripeId) IN
       /\ row.name = "Pro v2"
       /\ ~row.active
       /\ row.created # last.args.created

\* The store after deactivating remote id stripeId of table t, as C16 states
\* it: the row's active flag cleared, everything else as it was.
OnlyActiveCleared(d, t, stripeId) ==
  LET existing == First(ByStripeId(d, t, stripeId)) IN
  IF existing = NoRow THEN d
  ELSE [d EXCEPT ![t] = (@ \ {existing}) \cup {[existing EXCEPT !.active = FALSE]}]

\* C16: deactivateProduct and deactivatePrice for a remote id with a row set
\* that row's active to false and leave its other fields, every other row and
\* every other table unchanged; for a remote id without a row they raise
\* nothing, create no row and change nothing.
C16_DeactivateFrame ==
  /\ \A s \in ProdIds :
       DeactivateProduct(db, s) = [db |-> OnlyActiveCleared(db, "products", s),
                                   ret |-> 0]
  /\ \A s \in PriceIds :
       DeactivatePrice(db, s) = [db |-> OnlyActiveCleared(db, "prices", s),
                                 ret |-> 0]
  /\ last.op \in {"deactivateProduct", "deactivatePrice"} =>
       LET t == IF last.op = "deactivateProduct" THEN "products" ELSE "prices"
           rows == ByStripeId(db, t, last.args.stripeId)
       IN /\ last.existed => \E row \in rows : ~row.active
          /\ ~last.existed => last.noDiff /\ rows = {}

\* C16 witness: deactivateProduct was just called for a row that was active;
\* the row is still there with its name, and inactive.
C16_Witness ==
  /\ last.op = "deactivateProduct"
  /\ last.existed
  /\ ~last.noDiff
  /\ \E row \in ByStripeId(db, "products", last.args.stripeId) :
       row.name = "Pro" /\ ~row.active

\* The rows getCurrentSubscription may return for a user.
ActiveOf(d, userId) ==
  {r \in d.subscriptions : r.userId = userId /\ r.status = "active"}

C18_CatalogMirrored ==
  sy.pc = "done" =>
    /\ \A k \in 1..Len(remote) :
         LET P == remote[k].product
             prows == ByStripeId(db, "products", P.id)
         IN P.active =>
              /\ Cardinality(prows) = 1
              /\ \A p \in prows : p.active
              /\ \A j \in 1..Len(remote[k].prices) :
                   LET R == remote[k].prices[j]
                       rrows == ByStripeId(db, "prices", R.id)
                   IN /\ Cardinality(rrows) = 1
                      /\ \A r \in rrows :
                           /\ r.unitAmount = R.unit_amount
                           /\ r.recurringInterval = R.interval
                           /\ r.productStripeId = P.id
                           /\ \A p \in prows : r.productId = p._id
    /\ sy.run > 1 =>
         /\ Cardinality(db.products) = sy.rows.products
         /\ Cardinality(db.prices) = sy.rows.prices

\* C19: after an invoice event whose payload carries a subscription reference
\* that has a local row, the invoice row's subscriptionId is that row's local
\* id and its subscriptionStripeId is the referenced remote id, whether the
\* invoice row was inserted by this event or existed before without linkage.
C19_InvoiceLinked ==
  (wh.pc \in {"handled", "responded"} /\ wh.event.type \in InvoiceTypes) =>
    LET invoice == wh.event.object
        subscription == GetSubscriptionByStripeId(wh.pre, invoice.subscription)
    IN (invoice.subscription # None
          /\ subscription # NoRow
          /\ GetCustomerByStripeId(wh.pre, invoice.customer) # NoRow) =>
         \E row \in ByStripeId(db, "invoices", invoice.id) :
           /\ row.subscriptionId = subscription._id
           /\ row.subscriptionStripeId = invoice.subscription

(***************************************************************************)
(* CustomerSpec: createCustomer, called sequentially.  `remote` is the list *)
(* of customers at the provider, `sy` the call in flight, `calls` the      *)
(* number of calls made so far.                                            *)
(***************************************************************************)
MaxCreates == 3

Emails == {"a@x", "b@x"}

\* stripe.customers.create({email, name, metadata: {userId}}): a new customer
\* under a fresh remote id.
StripeCustomersCreate(list, email, name, userId) ==
  [id |-> "cus_" \o ToString(Len(list) + 1),
   email |-> email,
   name |-> name,
   currency |-> None,
   created |-> 20,
   metadata |-> userId]

\* The customers the provider holds for a mirror: those behind its rows.
RemoteCustomersOf(d) ==
  IF d.customers = {} THEN << >> ELSE <<StripeCustomer("cus_1", "u1", 1)>>

NoCreate(served) ==
  [pc |-> "idle", userId |-> None, email |-> None, name |-> None,
   existed |-> FALSE, stripeCustomer |-> NoRow, ret |-> NoRow,
   pre |-> EmptyDb, preRemote |-> << >>, served |-> served]

\* createCustomer(ctx, {userId, email, name}) is called.
CreateCustomerCall ==
  /\ sy.pc = "idle"
  /\ calls < MaxCreates
  /\ calls' = calls + 1
  /\ \E u \in Users, e \in Emails, n \in {None, "Ann"} :
       sy' = [sy EXCEPT !.pc = "check", !.userId = u, !.email = e, !.name = n,
                        !.pre = db, !.preRemote = remote]
  /\ UNCHANGED <<db, last, wh, remote>>

\* const existing = await getCustomerByUserId(...); if (existing) return existing
CreateCustomerExisting ==
  /\ sy.pc = "check"
  /\ GetCustomerByUserId(db, sy.userId) # NoRow
  /\ sy' = [sy EXCEPT !.pc = "returned", !.existed = TRUE,
                      !.ret = GetCustomerByUserId(db, sy.userId),
                      !.served = @ \cup {sy.userId}]
  /\ UNCHANGED <<db, calls, last, wh, remote>>

\* const stripeCustomer = await stripe.customers.create(...)
CreateCustomerRemote ==
  /\ sy.pc = "check"
  /\ GetCustomerByUserId(db, sy.userId) = NoRow
  /\ LET c == StripeCustomersCreate(remote, sy.email, sy.name, sy.userId) IN
       /\ remote' = Append(remote, c)
       /\ sy' = [sy EXCEPT !.pc = "store", !.stripeCustomer = c]
  /\ UNCHANGED <<db, calls, last, wh>>

\* await runMutation(upsertCustomer, {...})
CreateCustomerStore ==
  /\ sy.pc = "store"
  /\ db' = UpsertCustomer(db,
             [stripeId |-> sy.stripeCustomer.id,
              userId |-> sy.userId,
              email |-> OrElse(sy.stripeCustomer.email, sy.email),
              name |-> OrElse(sy.stripeCustomer.name, sy.name),
              currency |-> sy.stripeCustomer.currency,
              created |-> sy.stripeCustomer.created,
              metadata |-> sy.stripeCustomer.metadata]).db
  /\ sy' = [sy EXCEPT !.pc = "readback"]
  /\ UNCHANGED <<calls, last, wh, remote>>

\* const customer = await getCustomerByUserId(...); throw if null; return it
CreateCustomerReturn ==
  /\ sy.pc = "readback"
  /\ sy' = [sy EXCEPT
            !.pc = IF GetCustomerByUserId(db, sy.userId) = NoRow
                     THEN "threw" ELSE "returned",
            !.ret = GetCustomerByUserId(db, sy.userId),
            !.served = @ \cup {sy.userId}]
  /\ UNCHANGED <<db, calls, last, wh, remote>>

\* The caller goes on after the call returned or threw.
CreateCustomerDone ==
  /\ sy.pc \in {"returned", "threw"}
  /\ sy' = NoCreate(sy.served)
  /\ UNCHANGED <<db, calls, last, wh, remote>>

CustomerInit ==
  /\ db \in {EmptyDb, Mirrored}
  /\ remote = RemoteCustomersOf(db)
  /\ sy = NoCreate({})
  /\ calls = 0
  /\ last = NoCall
  /\ wh = NoRow

CustomerNext ==
  \/ CreateCustomerCall
  \/ CreateCustomerExisting
  \/ CreateCustomerRemote
  \/ CreateCustomerStore
  \/ CreateCustomerReturn
  \/ CreateCustomerDone

CustomerSpec == CustomerInit /\ [][CustomerNext]_vars

\* The provider's customers tagged with a user, as positions of the list.
TaggedWith(u) == {k \in 1..Len(remote) : remote[k].metadata = u}

\* C20: createCustomer for a user who has a local row returns that row without
\* creating a remote customer or writing the store; otherwise it creates
\* exactly one remote customer tagged with the user, upserts exactly one
\* local row for it and returns that row; so after any number of sequential
\* calls a served user has one remote customer and one local row.
C20_CreateCustomerOnce ==
  /\ sy.pc # "threw"
  /\ (sy.pc = "returned" /\ sy.existed) =>
       /\ sy.ret \in sy.pre.customers
       /\ sy.ret.userId = sy.userId
       /\ db = sy.pre
       /\ remote = sy.preRemote
  /\ (sy.pc = "returned" /\ ~sy.existed) =>
       /\ remote = Append(sy.preRemote, sy.stripeCustomer)
       /\ sy.stripeCustomer.metadata = sy.userId
       /\ db.customers = sy.pre.customers \cup {sy.ret}
       /\ sy.ret \notin sy.pre.customers
       /\ sy.ret.userId = sy.userId
       /\ sy.ret.stripeId = sy.stripeCustomer.id
       /\ \A t \in Tables \ {"customers"} : db[t] = sy.pre[t]
  /\ sy.pc \in {"idle", "returned"} =>
       \A u \in sy.served :
         /\ Cardinality(TaggedWith(u)) = 1
         /\ Cardinality({r \in db.customers : r.userId = u}) = 1

\* C20 witness: a call for a user found the row an earlier call had created
\* and returned it; the provider holds the one customer that call created.
C20_Witness ==
  /\ sy.pc = "returned"
  /\ sy.existed
  /\ calls >= 2
  /\ Len(remote) = 1
  /\ remote[1].created = 20
  /\ sy.ret.stripeId = remote[1].id

(***************************************************************************)
(* ConcurrentSpec: two createCustomer invocations in flight at once.  Every *)
(* await of the action is a step of its own, and the steps of the two      *)
(* invocations interleave freely.  `sy[p]` is invocation slot p, and        *)
(* `last.raced` records the users for whom an existence check came back     *)
(* empty while another invocation for the same user had already passed its  *)
(* own check and not yet stored.                                           *)
(***************************************************************************)
Procs == {1, 2}

NoInvocation ==
  [pc |-> "idle", userId |-> None, email |-> None, stripeCustomer |-> NoRow,
   ret |-> NoRow]

\* createCustomer(ctx, {userId, email}) is called in slot p.
ConcCall(p) ==
  /\ sy[p].pc = "idle"
  /\ calls < MaxCreates
  /\ calls' = calls + 1
  /\ \E u \in Users :
       sy' = [sy EXCEPT ![p] = [NoInvocation EXCEPT
                !.pc = "check", !.userId = u, !.email = "a@x"]]
  /\ UNCHANGED <<db, last, wh, remote>>

\* const existing = await getCustomerByUserId(...); if (existing) return existing
ConcCheck(p) ==
  /\ sy[p].pc = "check"
  /\ LET existing == GetCustomerByUserId(db, sy[p].userId)
         inFlight == \E q \in Procs \ {p} :
                       /\ sy[q].userId = sy[p].userId
                       /\ sy[q].pc \in {"create", "store"}
     IN /\ sy' = [sy EXCEPT
               ![p].pc = IF existing # NoRow THEN "returned" ELSE "create",
               ![p].ret = existing]
        /\ last' = IF existing = NoRow /\ inFlight
                     THEN [last EXCEPT !.raced = @ \cup {sy[p].userId}]
                     ELSE last
  /\ UNCHANGED <<db, calls, wh, remote>>

\* const stripeCustomer = await stripe.customers.create(...)
ConcCreate(p) ==
  /\ sy[p].pc = "create"
  /\ LET c == StripeCustomersCreate(remote, sy[p].email, None, sy[p].userId) IN
       /\ remote' = Append(remote, c)
       /\ sy' = [sy EXCEPT ![p].pc = "store", ![p].stripeCustomer = c]
  /\ UNCHANGED <<db, calls, last, wh>>

\* await runMutation(upsertCustomer, {...})
ConcStore(p) ==
  /\ sy[p].pc = "store"
  /\ db' = UpsertCustomer(db,
             [stripeId |-> sy[p].stripeCustomer.id,
              userId |-> sy[p].userId,
              email |-> OrElse(sy[p].stripeCustomer.email, sy[p].email),
              name |-> sy[p].stripeCustomer.name,
              currency |-> sy[p].stripeCustomer.currency,
              created |-> sy[p].stripeCustomer.created,
              metadata |-> sy[p].stripeCustomer.metadata]).db
  /\ sy' = [sy EXCEPT ![p].pc = "readback"]
  /\ UNCHANGED <<calls, last, wh, remote>>

\* const customer = await getCustomerByUserId(...); return customer
ConcReturn(p) ==
  /\ sy[p].pc = "readback"
  /\ sy' = [sy EXCEPT ![p].pc = "returned",
                      ![p].ret = GetCustomerByUserId(db, sy[p].userId)]
  /\ UNCHANGED <<db, calls, last, wh, remote>>

\* The caller of slot p goes on.
ConcDone(p) ==
  /\ sy[p].pc = "returned"
  /\ sy' = [sy EXCEPT ![p] = NoInvocation]
  /\ UNCHANGED <<db, calls, last, wh, remote>>

ConcurrentInit ==
  /\ db \in {EmptyDb, Mirrored}
  /\ remote = RemoteCustomersOf(db)
  /\ sy = [p \in Procs |-> NoInvocation]
  /\ calls = 0
  /\ last = [raced |-> {}]
  /\ wh = NoRow

ConcurrentNext ==
  \E p \in Procs :
    \/ ConcCall(p)
    \/ ConcCheck(p)
    \/ ConcCreate(p)
    \/ ConcStore(p)
    \/ ConcReturn(p)
    \/ ConcDone(p)

ConcurrentSpec == ConcurrentInit /\ [][ConcurrentNext]_vars

\* The customer rows of a user.
CustomersOf(d, u) == {r \in d.customers : r.userId = u}

\* C21: concurrent get-or-create is unsafe.  A user never has more customer
\* rows than remote customers tagged with them, and has more than one row
\* only if two invocations for that user both passed the existence check
\* before either had stored its row; that interleaving is reachable (the
\* witness), so "at most one customer row per user" is not an invariant.
C21_DuplicateOnlyByRace ==
  \A u \in Users :
    /\ Cardinality(CustomersOf(db, u)) <= Cardinality(TaggedWith(u))
    /\ Cardinality(CustomersOf(db, u)) > 1 => u \in last.raced
    /\ (u \in last.raced /\ \A p \in Procs : sy[p].pc \in {"idle", "returned"})
         => Cardinality(CustomersOf(db, u)) > 1

\* C21 witness: both invocations have returned, and user u1 has two customer
\* rows and two remote customers.
C21_Witness ==
  /\ \A p \in Procs : sy[p].pc = "returned" /\ sy[p].userId = "u1"
  /\ Cardinality(CustomersOf(db, "u1")) = 2
  /\ Cardinality(TaggedWith("u1")) = 2

\* The store with only the rows of user u in the user-keyed tables.
OnlyRowsOf(d, u) ==
  [t \in DOMAIN d |->
     IF t \in {"subscriptions", "invoices", "paymentMethods"}
       THEN {r \in d[t] : r.userId = u}
       ELSE d[t]]

\* Every element of a sequence of rows belongs to user u.
AllOf(rows, u) == \A k \in 1..Len(rows) : rows[k].userId = u

\* C22: the user-scoped queries answer, for user u, only rows whose userId is
\* u, and answer the same on the store stripped of every other user's rows;
\* hence the same on any two stores that differ only in other users' rows.
C22_UserScoped ==
  /\ \A u \in Users :
       LET own == OnlyRowsOf(db, u) IN
       /\ GetCurrentSubscription(db, u) # NoRow =>
            GetCurrentSubscription(db, u).userId = u
       /\ GetCurrentSubscription(db, u) = GetCurrentSubscription(own, u)
       /\ AllOf(ListUserSubscriptions(db, u), u)
       /\ ListUserSubscriptions(db, u) = ListUserSubscriptions(own, u)
       /\ AllOf(ListUserPaymentMethods(db, u), u)
       /\ ListUserPaymentMethods(db, u) = ListUserPaymentMethods(own, u)
       /\ \A n \in Limits :
            /\ AllOf(ListUserInvoices(db, u, n), u)
            /\ ListUserInvoices(db, u, n) = ListUserInvoices(own, u, n)
  /\ last.op \in {"listUserSubscriptions", "listUserInvoices",
                  "listUserPaymentMethods"} =>
       AllOf(last.ret, last.args.userId)

\* C22 witness: listUserSubscriptions was just answered for a user without
\* subscriptions while the store holds another user's subscription; the
\* answer is empty.
C22_Witness ==
  /\ last.op = "listUserSubscriptions"
  /\ last.ret = << >>
  /\ \E r \in db.subscriptions : r.userId # last.args.userId

(***************************************************************************)
(* ActionSpec: the caller-facing actions generateCheckoutLink,              *)
(* generateBillingPortalLink and cancelSubscription, invoked one after the  *)
(* other.  `remote` is the provider's customer list and `last` the outcome  *)
(* of the latest invocation: the error it threw (None if it returned), the  *)
(* provider calls it made, and the store and customer list it started from. *)
(***************************************************************************)
MaxActions == 3

\* The outcome of an action: store, provider customers, thrown error, and
\* the provider API calls made, in order.
Result(d, list, error, api) ==
  [db |-> d, remote |-> list, error |-> error, api |-> api]

\* createCustomer run to completion: the row it returns and what it did.
CreateCustomer(d, list, userId, email) ==
  LET existing == GetCustomerByUserId(d, userId)
      c == StripeCustomersCreate(list, email, None, userId)
      stored == UpsertCustomer(d,
                  [stripeId |-> c.id,
                   userId |-> userId,
                   email |-> OrElse(c.email, email),
                   name |-> c.name,
                   currency |-> c.currency,
                   created |-> c.created,
                   metadata |-> c.metadata]).db
  IN IF existing # NoRow
       THEN [ret |-> existing, out |-> Result(d, list, None, << >>)]
       ELSE [ret |-> GetCustomerByUserId(stored, userId),
             out |-> Result(stored, Append(list, c),
                            IF GetCustomerByUserId(stored, userId) = NoRow
                              THEN "Failed to create customer" ELSE None,
                            <<"customers.create">>)]

\* generateCheckoutLink: get or create the customer, then create the session.
GenerateCheckoutLink(d, list, userId, email) ==
  LET customer == GetCustomerByUserId(d, userId)
      made == CreateCustomer(d, list, userId, email)
      r == IF customer # NoRow
             THEN [ret |-> customer, out |-> Result(d, list, None, << >>)]
             ELSE made
  IN IF r.out.error # None THEN r.out
     ELSE IF r.ret = NoRow
       THEN [r.out EXCEPT !.error = "Failed to create customer"]
     ELSE [r.out EXCEPT !.api = Append(@, "checkout.sessions.create")]

\* generateBillingPortalLink: throws without a customer row.
GenerateBillingPortalLink(d, list, userId) ==
  IF GetCustomerByUserId(d, userId) = NoRow
    THEN Result(d, list, "Customer not found", << >>)
    ELSE Result(d, list, None, <<"billingPortal.sessions.create">>)

\* cancelSubscription: throws without an active subscription; otherwise one
\* provider call, which the mirror only learns of through a later event.
CancelSubscription(d, list, userId, immediate) ==
  IF GetCurrentSubscription(d, userId) = NoRow
    THEN Result(d, list, "No active subscription found", << >>)
    ELSE Result(d, list, None,
                <<IF immediate THEN "subscriptions.cancel"
                  ELSE "subscriptions.update">>)

\* One invocation of action `op` by the caller resolved to userId.
Act(op, userId, r) ==
  /\ calls < MaxActions
  /\ calls' = calls + 1
  /\ db' = r.db
  /\ remote' = r.remote
  /\ last' = [op |-> op, userId |-> userId, error |-> r.error, api |-> r.api,
              pre |-> db, preRemote |-> remote]
  /\ UNCHANGED <<wh, sy>>

CallGenerateCheckoutLink ==
  \E u \in Users, e \in Emails :
    Act("generateCheckoutLink", u, GenerateCheckoutLink(db, remote, u, e))
CallGenerateBillingPortalLink ==
  \E u \in Users :
    Act("generateBillingPortalLink", u, GenerateBillingPortalLink(db, remote, u))
CallCancelSubscription ==
  \E u \in Users, immediate \in BOOLEAN :
    Act("cancelSubscription", u, CancelSubscription(db, remote, u, immediate))

ActionInit ==
  /\ db \in {EmptyDb, Mirrored, Drifted}
  /\ remote = RemoteCustomersOf(db)
  /\ last = [op |-> None, userId |-> None, error |-> None, api |-> << >>,
             pre |-> db, preRemote |-> remote]
  /\ calls = 0
  /\ wh = NoRow
  /\ sy = NoRow

ActionNext ==
  \/ CallGenerateCheckoutLink
  \/ CallGenerateBillingPortalLink
  \/ CallCancelSubscription

ActionSpec == ActionInit /\ [][ActionNext]_vars

\* The latest action failed cleanly: an error, no provider call, no write.
FailedCleanly ==
  /\ last.error # None
  /\ last.api = << >>
  /\ db = last.pre
  /\ remote = last.preRemote

\* C23: generateCheckoutLink and generateBillingPortalLink invoked by a caller
\* without a customer row, and cancelSubscription invoked by a caller without
\* an active subscription, fail with an error, call the provider not at all
\* and leave the store as it was.
C23_FailsWithoutPrerequisite ==
  /\ (last.op \in {"generateCheckoutLink", "generateBillingPortalLink"}
        /\ GetCustomerByUserId(last.pre, last.userId) = NoRow) => FailedCleanly
  /\ (last.op = "cancelSubscription"
        /\ GetCurrentSubscription(last.pre, last.userId) = NoRow) => FailedCleanly

\* The invoice rows of a user, and the elements of a sequence.
InvoicesOf(d, u) == {r \in d.invoices : r.userId = u}
Range(seq) == {seq[k] : k \in 1..Len(seq)}

\* rows holds the `count` most recently created invoices of u, newest first.
NewestFirst(rows, d, u, count) ==
  /\ Range(rows) \subseteq InvoicesOf(d, u)
  /\ Len(rows) = count
  /\ \A i, j \in 1..Len(rows) : i < j => rows[i]._id > rows[j]._id
  /\ \A r \in InvoicesOf(d, u) \ Range(rows) :
       \A k \in 1..Len(rows) : r._id < rows[k]._id

\* C24: for every user u and every supplied limit n, n = 0 included,
\* listUserInvoices returns the Min(n, all) most recently created invoices of
\* u, newest first, hence at most n; with no limit it returns all of them,
\* newest first.
C24_InvoiceLimit ==
  /\ \A u \in Users, n \in Limits :
       NewestFirst(ListUserInvoices(db, u, n), db, u,
                   IF n = NoLimit THEN Cardinality(InvoicesOf(db, u))
                   ELSE Min(n, Cardinality(InvoicesOf(db, u))))
  /\ (last.op = "listUserInvoices" /\ last.args.limit # NoLimit) =>
       Len(last.ret) <= last.args.limit

\* Every price row points at an existing product row.
PricesReferToProducts(d) ==
  \A r \in d.prices :
    \E p \in d.products : p._id = r.productId /\ p.stripeId = r.productStripeId

C26_CustomerReferences ==
  /\ \A r \in db.subscriptions : \E c \in db.customers : c._id = r.customerId
  /\ \A r \in db.invoices : \E c \in db.customers : c._id = r.customerId

\* Row r carries the status, price link, cancel and trial timestamps and
\* metadata of remote subscription s.
CarriesEvent(r, s) ==
  /\ r.status = s.status
  /\ r.priceStripeId = s.price
  /\ r.cancelAtPeriodEnd = s.cancel_at_period_end
  /\ r.canceledAt = s.canceled_at
  /\ r.endedAt = s.ended_at
  /\ r.trialStart = s.trial_start
  /\ r.trialEnd = s.trial_end
  /\ r.metadata = s.metadata

\* C27: after a customer.subscription.created or .updated event has been
\* reconciled for a known customer, whatever was stored before and whichever
\* event the provider generated first, the row's status, price link, periods,
\* cancel and trial timestamps and metadata are those of that event.
C27_LastWriteWins ==
  (wh.pc \in {"handled", "responded"}
     /\ wh.event.type \in SubscriptionUpdateTypes
     /\ GetCustomerByStripeId(wh.pre, wh.event.object.customer) # NoRow) =>
    \E r \in ByStripeId(db, "subscriptions", wh.event.object.id) :
      /\ CarriesEvent(r, wh.event.object)
      /\ r.currentPeriodStart = wh.event.object.current_period_start
      /\ r.currentPeriodEnd = wh.event.object.current_period_end

\* The webhook endpoint under deliveries of customer and subscription events,
\* with every request in flight eventually answered.
LifecycleFairSpec == LifecycleSpec /\ WF_vars(LifecycleNext)

\* C28: once a customer.subscription.deleted event for sub_1 has been
\* reconciled, no later state holds a subscription row for sub_1, also when
\* a delayed or redelivered created/updated event for sub_1 is reconciled
\* afterwards.
C28_DeletionIsFinal ==
  []((wh.pc = "handled"
        /\ wh.event.type = "customer.subscription.deleted"
        /\ wh.event.object.id = "sub_1")
     => [](ByStripeId(db, "subscriptions", "sub_1") = {}))

\* C29: when the callback throws after the handler's write, the request is
\* answered 500 and the store is the one the handler left (the write is not
\* undone); and a redelivered event is reconciled again and its callback, if
\* configured, is invoked again.
C29_CallbackFailureKeepsWrite ==
  /\ (wh.pc = "responded" /\ wh.threw /\ wh.cb # None) =>
       /\ wh.status = 500
       /\ db = HandleWebhookEvent(wh.pre, wh.event).db
  /\ (wh.pc = "responded" /\ wh.redelivery /\ wh.event # NoEvent) =>
       /\ wh.reads = HandleWebhookEvent(wh.pre, wh.event).reads
       /\ wh.writes = HandleWebhookEvent(wh.pre, wh.event).writes
       /\ CallbackFor(wh.event.type) \in wh.config =>
            wh.cb = CallbackFor(wh.event.type)

\* C29 witness: a subscription event inserted a row, onSubscriptionCreated
\* threw, the answer is 500 and the row is in the store.
C29_Witness ==
  /\ wh.pc = "responded"
  /\ wh.threw
  /\ wh.cb = "onSubscriptionCreated"
  /\ wh.status = 500
  /\ ByStripeId(wh.pre, "subscriptions", wh.event.object.id) = {}
  /\ ByStripeId(db, "subscriptions", wh.event.object.id) # {}

\* C30: a customer.subscription.created or .updated event whose customer has
\* a local row but whose first item's price has none still upserts the
\* subscription, with priceId and productSlug absent and the remote price id
\* stored; an event whose customer has no local row writes nothing, and the
\* handler raises nothing (the answer is 200 unless a callback throws).
C30_MissingPriceDegrades ==
  (wh.pc \in {"handled", "responded"}
     /\ wh.event.type \in SubscriptionUpdateTypes) =>
    LET subscription == wh.event.object
        customer == GetCustomerByStripeId(wh.pre, subscription.customer)
        price == GetPriceByStripeId(wh.pre, subscription.price)
    IN /\ (customer # NoRow /\ subscription.price # None /\ price = NoRow) =>
            \E r \in ByStripeId(db, "subscriptions", subscription.id) :
              /\ r.priceId = 0
              /\ r.productSlug = NoSlug
              /\ r.priceStripeId = subscription.price
              /\ r.status = subscription.status
              /\ r.customerId = customer._id
       /\ customer = NoRow => (db = wh.pre /\ wh.writes = 0)
       /\ (wh.pc = "responded" /\ wh.cb = None) => wh.status = 200

\* C30 witness: a subscription event for a known customer and a price that
\* has no local row was answered 200, and the subscription row is there.
C30_Witness ==
  /\ wh.pc = "responded"
  /\ wh.status = 200
  /\ wh.event.type \in SubscriptionUpdateTypes
  /\ GetCustomerByStripeId(wh.pre, wh.event.object.customer) # NoRow
  /\ GetPriceByStripeId(wh.pre, wh.event.object.price) = NoRow
  /\ ByStripeId(db, "subscriptions", wh.event.object.id) # {}


\* The user id a customer.updated event resolves to against store d: the
\* event's metadata.userId, else the userId of the row with the same remote
\* id, else none.
ResolvedUserId(d, c) ==
  IF c.metadata # None THEN c.metadata
  ELSE IF ByStripeId(d, "customers", c.id) # {}
    THEN (CHOOSE r \in ByStripeId(d, "customers", c.id) : TRUE).userId
    ELSE None

\* C31: a customer.updated event upserts the customer with the user id taken
\* from the event's metadata.userId when present, otherwise from the local
\* row with the same remote id; when neither yields a user id the store is
\* unchanged, no mutation runs and the request is still answered 200.
C31_CustomerUpdatedUserId ==
  (wh.pc \in {"handled", "responded"} /\ wh.event.type = "customer.updated") =>
    LET c == wh.event.object
        userId == ResolvedUserId(wh.pre, c)
    IN /\ userId # None =>
            /\ wh.writes = 1
            /\ db = UpsertCustomer(wh.pre,
                      [stripeId |-> c.id, userId |-> userId,
                       email |-> OrElse(c.email, ""), name |-> c.name,
                       currency |-> c.currency, created |-> c.created,
                       metadata |-> c.metadata]).db
            /\ \E r \in ByStripeId(db, "customers", c.id) :
                 /\ r.email = OrElse(c.email, "")
                 /\ ByStripeId(wh.pre, "customers", c.id) = {} =>
                      r.userId = userId
       /\ userId = None => (db = wh.pre /\ wh.writes = 0)
       /\ (wh.pc = "responded" /\ ~wh.threw) => wh.status = 200

\* C31 witness: an event without metadata.userId was reconciled against a
\* stored row, and the row took the event's fields under the stored user id.
C31_Witness ==
  /\ wh.pc = "responded"
  /\ wh.event.type = "customer.updated"
  /\ wh.event.object.metadata = None
  /\ wh.writes = 1
  /\ \E r \in ByStripeId(wh.pre, "customers", "cus_1") :
       /\ r.userId = "u1"
       /\ r.email # OrElse(wh.event.object.email, "")
  /\ \E r \in ByStripeId(db, "customers", "cus_1") :
       /\ r.userId = "u1"
       /\ r.email = OrElse(wh.event.object.email, "")


\* Tables whose rows name the application user, and those that name the
\* local customer row.
UserTables == {"customers", "subscriptions", "invoices", "paymentMethods"}
CustomerLinkTables == {"subscriptions", "invoices", "paymentMethods"}

\* Every row of store d that is still present in store e (same local id)
\* has the remote id, created timestamp, userId and customerId it had in d.
IdentityKept(d, e) ==
  \A t \in Tables : \A r \in d[t] : \A q \in e[t] :
    r._id = q._id =>
      /\ q.stripeId = r.stripeId
      /\ q.created = r.created
      /\ t \in UserTables => q.userId = r.userId
      /\ t \in CustomerLinkTables => q.customerId = r.customerId

\* C32: no mutation changes an existing row's remote id, created timestamp,
\* userId or customerId, whatever arguments it is called with; and
\* reconciling a customer.updated event, whatever metadata.userId it carries,
\* leaves those fields of every stored row as they were.
C32_IdentityImmutable ==
  [][/\ IdentityKept(db, db')
     /\ \A u \in Users \cup {None}, v \in Versions :
          IdentityKept(db',
            HandleCustomerUpdated(db',
              Event("customer.updated", StripeCustomer("cus_1", u, v))).db)]_vars

\* C32 witness: upsertCustomer was called for a remote id that had a row,
\* with another userId and another created timestamp than the stored ones,
\* and the row kept its own; a customer.updated event naming that other
\* user would patch this row.
C32_Witness ==
  /\ last.op = "upsertCustomer"
  /\ last.existed
  /\ last.args.stripeId = "cus_1"
  /\ \E r \in ByStripeId(db, "customers", "cus_1") :
       /\ r.userId # last.args.userId
       /\ r.created # last.args.created
       /\ r.email = last.args.email
       /\ r._id = last.ret
       /\ HandleCustomerUpdated(db,
            Event("customer.updated",
                  StripeCustomer("cus_1", last.args.userId, 2))).db # db


(***************************************************************************)
(* ResumeSpec: syncSubscriptions runs that abort.  The function has no     *)
(* try/catch, so an exception of a list call, a query or a mutation ends   *)
(* the run where it stands; each mutation that returned has committed.     *)
(* The caller then runs the backfill again, from the first page.           *)
(***************************************************************************)
MaxAborts == 2

\* The state of a run that starts on store d after `aborts` aborted runs of
\* a backfill that first started on store `start`.
ResumeStart(start, d, aborts) ==
  [start |-> start, runStart |-> d, aborts |-> aborts] @@ SyncStart

\* A faulty abort that undoes the writes of the aborted run.
SyncAbortRollback ==
  /\ sy.pc \in {"list", "page"}
  /\ sy.pc = "list" => sy.hasMore
  /\ sy.pc = "page" => sy.i <= Len(sy.data)
  /\ sy.aborts < MaxAborts
  /\ sy' = [sy EXCEPT !.pc = "aborted"]
  /\ db' = sy.runStart
  /\ UNCHANGED <<calls, last, wh, remote>>

\* stripe.subscriptions.list rejects, or a query or the mutation of the
\* current item rejects: the exception leaves syncSubscriptions.
SyncAbort ==
  /\ sy.pc \in {"list", "page"}
  /\ sy.pc = "list" => sy.hasMore
  /\ sy.pc = "page" => sy.i <= Len(sy.data)
  /\ sy.aborts < MaxAborts
  /\ sy' = [sy EXCEPT !.pc = "aborted"]
  /\ UNCHANGED <<db, calls, last, wh, remote>>

\* The caller invokes syncSubscriptions again.
SyncRerun ==
  /\ sy.pc = "aborted"
  /\ sy' = ResumeStart(sy.start, db, sy.aborts + 1)
  /\ UNCHANGED <<db, calls, last, wh, remote>>

ResumeInit ==
  /\ db \in {Mirrored, Drifted}
  /\ remote \in RemoteLists
  /\ sy = ResumeStart(db, db, 0)
  /\ calls = 0
  /\ last = NoCall
  /\ wh = NoRow

ResumeNext ==
  \/ SyncList
  \/ SyncItem
  \/ SyncPageEnd
  \/ SyncAbort
  \/ SyncRerun

ResumeSpec == ResumeInit /\ [][ResumeNext]_vars

\* The store a run leaves that processes `list` from store d without
\* interruption.
RECURSIVE SyncAll(_, _)
SyncAll(d, list) ==
  IF list = << >> THEN d
  ELSE SyncAll(SyncSubscription(d, Head(list)).db, Tail(list))

\* C33: when a syncSubscriptions run aborts, the rows it wrote before the
\* abort remain; and a later complete run against the same remote state
\* leaves the store equal to the store a single uninterrupted run produces
\* from the store the first run started on.
C33_ResumeEqualsSingleRun ==
  /\ sy.pc = "aborted" =>
       db = SyncAll(sy.runStart, SubSeq(remote, 1, Len(sy.log)))
  /\ sy.pc = "done" => db = SyncAll(sy.start, remote)

\* C33 witness: a run aborted after it had written a row, a second run
\* went over that row again and completed, and the store differs from the
\* one the backfill started on.
C33_Witness ==
  /\ sy.pc = "done"
  /\ sy.aborts >= 1
  /\ sy.runStart # sy.start
  /\ Len(remote) >= 2
  /\ db # sy.runStart
  /\ db = SyncAll(sy.start, remote)


(***************************************************************************)
(* EmptyPageSpec: the subscription backfill against a provider that may    *)
(* answer a list call with no items and has_more = true.                   *)
(***************************************************************************)
MaxEmptyPages == 2

\* The list calls of the run so far that were answered with no items.
EmptyPages == {k \in 1..Len(sy.pages) : sy.pages[k] = << >>}

\* stripe.subscriptions.list answers {data: [], has_more: true}.
SyncListEmpty ==
  /\ sy.pc = "list"
  /\ sy.hasMore
  /\ Cardinality(EmptyPages) < MaxEmptyPages
  /\ sy' = [sy EXCEPT !.pc = "page", !.data = << >>, !.i = 1,
                      !.hasMore = TRUE,
                      !.cursors = Append(@, sy.startingAfter),
                      !.pages = Append(@, << >>)]
  /\ UNCHANGED <<db, calls, last, wh, remote>>

EmptyPageNext ==
  \/ SyncList
  \/ SyncListEmpty
  \/ SyncItem
  \/ SyncPageEnd

EmptyPageSpec == SyncInit /\ [][EmptyPageNext]_vars

\* C34: every list call of a syncSubscriptions run after the first (each
\* follows a page that reported has_more = true) is sent a starting_after
\* cursor that differs from the cursor of the call before it, also when
\* that page had no items.
C34_CursorProgress ==
  \A k \in 2..Len(sy.cursors) : sy.cursors[k] # sy.cursors[k - 1]


\* C35: reconciling a verified checkout.session.completed event runs no
\* query and no mutation and leaves every table as it was; only after the
\* handler has returned is onCheckoutComplete invoked, once, when it is
\* configured, and no callback is invoked when it is not.
C35_CheckoutNoWrite ==
  (wh.pc \in {"handled", "responded"}
     /\ wh.event.type = "checkout.session.completed") =>
    /\ db = wh.pre
    /\ wh.writes = 0
    /\ wh.reads = 0
    /\ wh.pc = "handled" => wh.cb = None
    /\ wh.pc = "responded" =>
         /\ "onCheckoutComplete" \in wh.config => wh.cb = "onCheckoutComplete"
         /\ "onCheckoutComplete" \notin wh.config =>
              (wh.cb = None /\ wh.status = 200)

\* C35 witness: a checkout completion was answered after its callback ran,
\* with the mirrored rows still in the store.
C35_Witness ==
  /\ wh.pc = "responded"
  /\ wh.event.type = "checkout.session.completed"
  /\ wh.cb = "onCheckoutComplete"
  /\ wh.status = 200
  /\ db = wh.pre
  /\ db.customers # {}


(***************************************************************************)
(* PurchaseSpec: the endpoint fed payment-intent and customer events, with *)
(* no callbacks configured (none applies to these types).  A payment       *)
(* intent ends in one of the two states, so each intent has one event.     *)
(***************************************************************************)
MaxPurchaseDeliveries == 3

PurchaseEvents ==
  CustomerEvents
  \cup {Event("payment_intent.succeeded", StripePaymentIntent("pi_1", "cus_1", 1)),
        Event("payment_intent.canceled", StripePaymentIntent("pi_2", "cus_1", 2)),
        Event("payment_intent.canceled", StripePaymentIntent("pi_3", None, 2)),
        Event("payment_intent.succeeded", StripePaymentIntent("pi_4", "cus_2", 1))}

ReceivePurchase == ReceiveFrom(PurchaseEvents)

PurchaseInit ==
  /\ db \in {EmptyDb, Mirrored}
  /\ wh = Idle({}, MaxPurchaseDeliveries)
  /\ calls = 0
  /\ last = NoCall
  /\ remote = << >>
  /\ sy = NoRow

PurchaseNext ==
  \/ ReceivePurchase
  \/ Redeliver
  \/ Close
  \/ RejectMissingSignature
  \/ RejectInvalidSignature
  \/ CasePaymentIntentEvent
  \/ CaseCustomerUpdated
  \/ CaseCustomerDeleted
  \/ Respond

PurchaseSpec == PurchaseInit /\ [][PurchaseNext]_vars

\* C36: a payment_intent.succeeded or .canceled event whose customer has a
\* local row leaves exactly one invoice row under the intent's remote id,
\* with no subscription linkage, amountRemaining = 0, total = subtotal =
\* amountDue = the intent's amount, and amountPaid = the amount when the
\* status is succeeded and 0 otherwise; an event without a customer or with
\* a customer that has no local row changes nothing.
C36_PaymentIntentInvoice ==
  (wh.pc \in {"handled", "responded"}
     /\ wh.event.type \in PaymentIntentTypes) =>
    LET pi == wh.event.object
        known == pi.customer # None
                   /\ ByStripeId(wh.pre, "customers", pi.customer) # {}
    IN /\ known =>
            /\ wh.writes = 1
            /\ Cardinality(ByStripeId(db, "invoices", pi.id)) = 1
            /\ \A r \in ByStripeId(db, "invoices", pi.id) :
                 /\ r.subscriptionId = 0
                 /\ r.subscriptionStripeId = None
                 /\ r.status = pi.status
                 /\ r.amountRemaining = 0
                 /\ r.total = pi.amount
                 /\ r.subtotal = pi.amount
                 /\ r.amountDue = pi.amount
                 /\ r.amountPaid =
                      (IF pi.status = "succeeded" THEN pi.amount ELSE 0)
                 /\ 0 <= r.amountPaid /\ r.amountPaid <= r.total
            /\ \A r \in db.invoices \ ByStripeId(db, "invoices", pi.id) :
                 r \in wh.pre.invoices
       /\ ~known => (db = wh.pre /\ wh.writes = 0)

\* C36 witness: a canceled intent of a known customer was recorded after a
\* succeeded one: two invoice rows, one paid in full and one with nothing
\* paid.
C36_Witness ==
  /\ wh.pc = "responded"
  /\ wh.event.type = "payment_intent.canceled"
  /\ wh.status = 200
  /\ \E r \in ByStripeId(db, "invoices", "pi_2") :
       r.amountPaid = 0 /\ r.total = 500
  /\ \E r \in ByStripeId(db, "invoices", "pi_1") :
       r.amountPaid = 500 /\ r.total = 500


\* The invoice fields the claim says an update keeps.
InvoiceFrozen == {"amountDue", "subtotal", "total", "currency", "periodStart",
                  "periodEnd", "dueDate", "billingReason", "customerId",
                  "customerStripeId", "userId", "subscriptionId",
                  "subscriptionStripeId"}

\* The invoice fields the claim says an update overwrites.
InvoiceUpdated == {"status", "amountPaid", "amountRemaining", "invoicePdf",
                   "hostedInvoiceUrl", "paidAt", "metadata"}

\* Every invoice row of store d is in store e with its frozen fields as
\* they were.
InvoiceFrameKept(d, e) ==
  \A r \in d.invoices : \E q \in e.invoices :
    /\ q._id = r._id
    /\ \A f \in InvoiceFrozen : q[f] = r[f]

\* A later event for invoice `id` that differs from the stored values in
\* the amounts, the currency, the period, the due date and the reason.
RevisedInvoice(id, customer) ==
  [StripeInvoice(id, customer, 2) EXCEPT
     !.amount_due = 2500, !.subtotal = 2400, !.total = 2600,
     !.currency = "gbp", !.period_start = 300, !.period_end = 330,
     !.due_date = 340, !.billing_reason = "manual"]

\* C37: upsertInvoice on an existing remote id sets status, amountPaid,
\* amountRemaining, invoicePdf, hostedInvoiceUrl, paidAt and metadata to the
\* values passed and keeps amountDue, subtotal, total, currency, the period,
\* dueDate, billingReason and the customer and subscription links as they
\* were stored at insertion; the invoice handler, given an event with other
\* values for those, changes none of them either.
C37_InvoiceUpdateFrame ==
  [][/\ (last'.op = "upsertInvoice" /\ calls' = calls + 1) =>
          /\ InvoiceFrameKept(db, db')
          /\ \A r \in db.invoices : \A q \in db'.invoices :
               (q._id = r._id /\ r.stripeId = last'.args.stripeId) =>
                 \A f \in InvoiceUpdated : q[f] = last'.args[f]
     /\ \A i \in InvoiceIds, c \in CusIds :
          InvoiceFrameKept(db',
            HandleInvoiceEvent(db',
              Event("invoice.paid", RevisedInvoice(i, c))).db)]_vars

\* C37 witness: upsertInvoice was called for a stored invoice with other
\* amounts, currency and customer than the stored ones; the row shows the
\* new status and amount paid and the old amount due and currency, and the
\* invoice handler would patch it as well.
C37_Witness ==
  /\ last.op = "upsertInvoice"
  /\ last.existed
  /\ \E r \in ByStripeId(db, "invoices", last.args.stripeId) :
       /\ r.status = last.args.status
       /\ r.amountPaid = last.args.amountPaid
       /\ r.amountDue # last.args.amountDue
       /\ r.currency # last.args.currency
       /\ r.userId # last.args.userId
       /\ r.subscriptionId # last.args.subscriptionId


\* The slug the claim names for remote price R of product P:
\* <productSlug>-<currency>-<interval or "once">, none without product slug.
ExpectedPriceSlug(P, R) ==
  IF \E k \in DOMAIN ProductsConfig : ProductsConfig[k] = P.id
    THEN <<CHOOSE k \in DOMAIN ProductsConfig : ProductsConfig[k] = P.id,
           R.currency, IF R.interval = None THEN "once" ELSE R.interval>>
    ELSE NoSlug

\* The slugs of the rows store d holds for remote price id.
SlugsOf(d, id) == {r.slug : r \in ByStripeId(d, "prices", id)}

\* C38: the price row syncProducts has just written for remote price R of
\* product P carries the slug <productSlug>-<currency>-<interval or "once">,
\* or none when P is not in the static product map; and the price webhook
\* handler stores that same slug for R, whether it patches the row the sync
\* wrote, inserts the row anew, or runs on a store that only the product
\* webhook has written.
C38_PriceSlugAgrees ==
  (sy.pc = "price" /\ sy.j > 1) =>
    LET P == sy.products[sy.i].product
        R == sy.prices[sy.j - 1]
        rows == ByStripeId(db, "prices", R.id)
        without == [db EXCEPT !.prices = @ \ rows]
        byWebhook == HandleProductUpdate(EmptyDb, Event("product.created", P)).db
    IN /\ SlugsOf(db, R.id) = {ExpectedPriceSlug(P, R)}
       /\ SlugsOf(HandlePriceUpdate(db, Event("price.updated", R)).db, R.id)
            = SlugsOf(db, R.id)
       /\ SlugsOf(HandlePriceUpdate(without, Event("price.created", R)).db, R.id)
            = SlugsOf(db, R.id)
       /\ SlugsOf(HandlePriceUpdate(byWebhook, Event("price.created", R)).db, R.id)
            = SlugsOf(db, R.id)

\* C38 witness: syncProducts has just written a one-time price of the
\* product in the static map, which an earlier webhook had stored as a
\* monthly price, and its slug is pro-eur-once.
C38_Witness ==
  /\ sy.pc = "price"
  /\ sy.j > 1
  /\ sy.prices[sy.j - 1].id = "price_1"
  /\ sy.prices[sy.j - 1].interval = None
  /\ SlugsOf(Mirrored, "price_1") = {<<"pro", "usd", "month">>}
  /\ SlugsOf(db, "price_1") = {<<"pro", "eur", "once">>}
  /\ SlugsOf(HandlePriceUpdate(db,
       Event("price.updated", sy.prices[sy.j - 1])).db, "price_1")
       = {<<"pro", "eur", "once">>}

====
